---- MODULE Spec2Model ----
(***************************************************************************)
(* Model of the ETL expression evaluator (evaluator.hpp, eval_functors.hpp) *)
(* and of the GPU memory coherence handler (gpu_memory_handler, dyn_base).  *)
(*                                                                         *)
(* Two independent components live in this module:                         *)
(*   - the parallel evaluation of an assignment / compound assignment,     *)
(*     specification SpecPar;                                              *)
(*   - the gpu_memory_handler attached to every dense container,           *)
(*     specification SpecGpu.                                              *)
(* Each specification keeps the variables of the other component frozen.   *)
(***************************************************************************)
EXTENDS Integers, Sequences, FiniteSets, TLC

(***************************************************************************)
(* Bounds of the model                                                     *)
(***************************************************************************)
\* largest destination size etl::size(result)
MaxN == 10
\* largest configured number of threads
MaxThreads == 3
\* number of distinct device addresses cudaMalloc can return
MaxAddr == 2
\* largest dimension of the square matrix assigned through the top level entry
MaxDim == 3
\* largest destination size of the evaluations that run on the calling thread only
MaxSeqN == 20
\* largest destination size of the evaluations under other thresholds
MaxThresholdN == 6
\* largest destination size of the modulo evaluations
MaxModN == 6
\* largest destination size of the calls whose strategy is selected
MaxClassifyN == 3
\* largest destination size of the evaluations checked for termination
MaxFairN == 5
\* largest number of expression nodes between an operand of a temporary
\* expression and its container
MaxDepth == 2
\* largest value of a dimension of a container
MaxExtent == 3

(***************************************************************************)
(* Platform constants (intrinsic_traits of a float on SSE)                 *)
(***************************************************************************)
\* IT::size, the number of elements of one vector lane
VecSize == 4
\* IT::alignment, in bytes
Alignment == 16
\* sizeof(value_t<V_Expr>), in bytes
ElemSize == 4
\* etl::parallel_threshold, scaled down
ParallelThreshold == 2
\* number of values of std::size_t, scaled down to 3 bits
SizeT == 8
\* D, the number of dimensions of dyn_base<T, D>
Rank == 2

Min(a, b) == IF a < b THEN a ELSE b

VARIABLES
    \* ---- parallel evaluation ----
    n,                        \* etl::size(result)
    threads,                  \* configured number of threads
    parallel_threshold,       \* configured parallel threshold
    unroll_normal_loops,      \* scalar x4 unrolling toggle
    unroll_vectorized_loops,  \* vector x4 unrolling toggle
    op,                       \* "assign", "add", "sub", "mul", "div"
    vec,                      \* TRUE: the functors are the vectorized ones
    strategy,                 \* the overload selected: "standard", "fast", "direct",
                              \* "vectorized", "parallel", "parallel_vectorized"
    lhs_base,                 \* address of result.memory_start() modulo the alignment
    expr_rhs,                 \* contents of the expression: "cycle" or "iota"
    result,                   \* contents of the destination
    pc,                       \* position of the calling thread
    t,                        \* loop counter of the dispatch loop
    tasks,                    \* functors constructed so far, in construction order
    evals,                    \* number of calls of evaluate_only
    \* ---- gpu memory handler ----
    gpu_memory_,              \* handler -> device address (0 is nullptr)
    cpu_up_to_date,           \* handler -> flag
    gpu_up_to_date,           \* handler -> flag
    cpu_memory,               \* handler -> contents of the host buffer
    device,                   \* device address -> contents
    live,                     \* device addresses allocated and not freed
    last,                     \* the last residency call and its effects
    trip,                     \* progress of the round trip scenario
    \* ---- top level entry of the evaluator ----
    top_op,                   \* "assign", "add", "sub", "mul", "div", "mod"
    expr,                     \* the expression passed to etl::*_evaluate
    order_R,                  \* storage order of result
    dim,                      \* result is a dim x dim matrix
    fwd,                      \* the expression the evaluator operates on
    top_pc,                   \* position in the evaluation
    idx,                      \* loop counter of the element loops
    tmp_result,               \* contents of the temporary (<<>>: none)
    mem_R,                    \* contents of result
    \* ---- selection of the strategy ----
    traits,                   \* static traits of the pair (expression, result)
    chosen,                   \* the overloads whose selector holds
    \* ---- direct evaluation of a temporary expression ----
    d_expr,                   \* the temporary expression assigned: kind and operands
    d_step,                   \* number of calls assign_evaluate has made
    d_alloc,                  \* node -> visits by temporary_allocator_static_visitor
    d_eval,                   \* node -> visits by evaluator_static_visitor
    d_temps,                  \* nodes a temporary has been allocated for
    d_direct,                 \* number of calls of direct_evaluate(result)
    \* ---- dyn_base ----
    objs,                     \* container -> constructed, _size, _dimensions
    dyn_ret                   \* the last accessor call and the value it returned

parVars == <<n, threads, parallel_threshold, unroll_normal_loops, unroll_vectorized_loops,
             op, vec, strategy, lhs_base, expr_rhs, result, pc, t, tasks, evals>>
gpuVars == <<gpu_memory_, cpu_up_to_date, gpu_up_to_date, cpu_memory, device, live,
             last, trip>>
topVars == <<top_op, expr, order_R, dim, fwd, top_pc, idx, tmp_result, mem_R>>
clsVars == <<traits, chosen>>
dirVars == <<d_expr, d_step, d_alloc, d_eval, d_temps, d_direct>>
dynVars == <<objs, dyn_ret>>
vars == <<parVars, gpuVars, topVars, clsVars, dirVars, dynVars>>

(***************************************************************************)
(* Expression and destination contents                                     *)
(***************************************************************************)
Ops == {"assign", "add", "sub", "mul", "div"}

\* expr[i] / expr.read_flat(i): the right hand side does not alias the destination
rhs(i) == IF expr_rhs = "iota" THEN i + 1 ELSE (i % 3) + 1
\* contents of the destination before the evaluation
result0(i) == 12 + i

\* the element operation of the functor selected by op
Combine(o, l, r) ==
    CASE o = "assign" -> r
      [] o = "add"    -> l + r
      [] o = "sub"    -> l - r
      [] o = "mul"    -> l * r
      [] o = "div"    -> l \div r
      [] o = "mod"    -> l % r

(***************************************************************************)
(* Functors: the sequence of memory accesses of one functor call.          *)
(* An access is [i |-> first index, w |-> width, ph |-> phase].            *)
(***************************************************************************)
Acc(i, w, ph) == [i |-> i, w |-> w, ph |-> ph]

RECURSIVE ScalarUnrolled(_, _)
ScalarUnrolled(i, iend) ==
    IF i < iend
    THEN <<Acc(i, 1, "scalar"), Acc(i + 1, 1, "scalar"),
           Acc(i + 2, 1, "scalar"), Acc(i + 3, 1, "scalar")>> \o ScalarUnrolled(i + 4, iend)
    ELSE <<>>

\* variant: the body runs once before the bound is tested
RECURSIVE ScalarLoop_DoWhile(_, _, _)
ScalarLoop_DoWhile(i, lst, ph) ==
    <<Acc(i, 1, ph)>> \o (IF i + 1 < lst THEN ScalarLoop_DoWhile(i + 1, lst, ph) ELSE <<>>)

RECURSIVE ScalarLoop(_, _, _)
ScalarLoop(i, lst, ph) ==
    IF i < lst THEN <<Acc(i, 1, ph)>> \o ScalarLoop(i + 1, lst, ph) ELSE <<>>

\* variant: the loop over the elements left by the unrolled loop is missing
ScalarFunctor_NoRemainder(first, lst) ==
    LET size == lst - first
        iend == IF unroll_normal_loops THEN first + (size \div 4) * 4 ELSE lst
    IN  IF unroll_normal_loops THEN ScalarUnrolled(first, iend) ELSE ScalarLoop(first, lst, "scalar")

\* detail::Assign::operator() and its compound siblings
ScalarFunctor(first, lst) ==
    LET size == lst - first
        iend == IF unroll_normal_loops THEN first + (size \div 4) * 4 ELSE first
    IN  (IF unroll_normal_loops THEN ScalarUnrolled(first, iend) ELSE <<>>)
        \o ScalarLoop(iend, lst, "scalar")

\* variant: the peeled iterations are not limited to the size of the chunk
peel_loop_NoClamp(first, lst) ==
    LET u_bytes == (lhs_base + first * ElemSize) % Alignment
    IN  IF u_bytes >= ElemSize /\ u_bytes % ElemSize = 0
        THEN u_bytes \div ElemSize
        ELSE 0

\* variant: the distance to the next aligned address, also when already aligned
peel_loop_PeelsWhenAligned(first, lst) ==
    LET size    == lst - first
        u_bytes == (lhs_base + first * ElemSize) % Alignment
    IN  IF u_bytes % ElemSize = 0
        THEN Min((Alignment - u_bytes) \div ElemSize, size)
        ELSE 0

\* peel_loop: the number of peeled iterations
peel_loop(first, lst) ==
    LET size    == lst - first
        u_bytes == (lhs_base + first * ElemSize) % Alignment
    IN  IF u_bytes >= ElemSize /\ u_bytes % ElemSize = 0
        THEN Min(u_bytes \div ElemSize, size)
        ELSE 0

RECURSIVE MainUnrolled(_, _, _)
MainUnrolled(i, lst, ph) ==
    IF i + VecSize * 4 - 1 < lst
    THEN <<Acc(i, VecSize, ph), Acc(i + 1 * VecSize, VecSize, ph),
           Acc(i + 2 * VecSize, VecSize, ph), Acc(i + 3 * VecSize, VecSize, ph)>>
         \o MainUnrolled(i + VecSize * 4, lst, ph)
    ELSE <<>>

\* variant: the loop tests i < _last, not i + IT::size - 1 < _last
RECURSIVE MainSingle_LooseBound(_, _, _)
MainSingle_LooseBound(i, lst, ph) ==
    IF i < lst
    THEN <<Acc(i, VecSize, ph)>> \o MainSingle_LooseBound(i + VecSize, lst, ph)
    ELSE <<>>

RECURSIVE MainSingle(_, _, _)
MainSingle(i, lst, ph) ==
    IF i + VecSize - 1 < lst
    THEN <<Acc(i, VecSize, ph)>> \o MainSingle(i + VecSize, lst, ph)
    ELSE <<>>

\* aligned_main_loop / unaligned_main_loop: the lane accesses issued from index first
main_loop(first, lst, ph) ==
    IF unroll_vectorized_loops /\ lst - first > VecSize * 4
    THEN MainUnrolled(first, lst, ph)
    ELSE MainSingle(first, lst, ph)

\* variant: the main loop returns the index of its last lane access
main_loop_end_LastLane(first, lst, ph) ==
    LET s == main_loop(first, lst, ph)
    IN  IF s = <<>> THEN first ELSE s[Len(s)].i

\* the value returned by the main loop: the index where the remainder starts
main_loop_end(first, lst, ph) ==
    LET s == main_loop(first, lst, ph)
    IN  IF s = <<>> THEN first ELSE s[Len(s)].i + VecSize

\* variant: without a main loop the remainder starts at peeled, not at _first + peeled
VectorizedFunctor_RemainderFromPeeled(first, lst) ==
    LET size    == lst - first
        peeled  == peel_loop(first, lst)
        aligned == (lhs_base + (first + peeled) * ElemSize) % Alignment = 0
        ph      == IF aligned THEN "aligned" ELSE "unaligned"
        main    == IF size - peeled >= VecSize
                   THEN main_loop(first + peeled, lst, ph) ELSE <<>>
        rfirst  == IF size - peeled >= VecSize
                   THEN main_loop_end(first + peeled, lst, ph) ELSE peeled
    IN  ScalarLoop(first, first + peeled, "peel") \o main \o ScalarLoop(rfirst, lst, "remainder")

\* variant: the aligned main loop is taken without testing the address after the peel
VectorizedFunctor_AlwaysAligned(first, lst) ==
    LET size    == lst - first
        peeled  == peel_loop(first, lst)
        main    == IF size - peeled >= VecSize
                   THEN main_loop(first + peeled, lst, "aligned") ELSE <<>>
        rfirst  == IF size - peeled >= VecSize
                   THEN main_loop_end(first + peeled, lst, "aligned") ELSE peeled + first
    IN  ScalarLoop(first, first + peeled, "peel") \o main \o ScalarLoop(rfirst, lst, "remainder")

\* vectorized_base::operator()
VectorizedFunctor(first, lst) ==
    LET size    == lst - first
        peeled  == peel_loop(first, lst)
        aligned == (lhs_base + (first + peeled) * ElemSize) % Alignment = 0
        ph      == IF aligned THEN "aligned" ELSE "unaligned"
        main    == IF size - peeled >= VecSize
                   THEN main_loop(first + peeled, lst, ph) ELSE <<>>
        rfirst  == IF size - peeled >= VecSize
                   THEN main_loop_end(first + peeled, lst, ph) ELSE peeled + first
    IN  ScalarLoop(first, first + peeled, "peel") \o main \o ScalarLoop(rfirst, lst, "remainder")

\* variant: the loop of mod_evaluate is chosen by the strategy, like the others
Functor_ModByStrategy(first, lst) ==
    CASE strategy \in {"standard", "fast"} -> ScalarLoop(first, lst, strategy)
      [] vec                                -> VectorizedFunctor(first, lst)
      [] OTHER                              -> ScalarFunctor(first, lst)

\* the accesses of the functor constructed over [first, lst); the loop of
\* mod_evaluate is the standard one whatever the strategy
Functor(first, lst) ==
    CASE op = "mod"                         -> ScalarLoop(first, lst, "standard")
      [] strategy \in {"standard", "fast"} -> ScalarLoop(first, lst, strategy)
      [] vec                                -> VectorizedFunctor(first, lst)
      [] OTHER                              -> ScalarFunctor(first, lst)

\* indices covered by the accesses 1..k of a sequence of accesses
Covered(s, k) == UNION {a.i .. (a.i + a.w - 1) : a \in {s[j] : j \in 1..k}}

(***************************************************************************)
(* Parallel evaluation: standard_evaluator::assign_evaluate_impl and       *)
(* add_evaluate / sub_evaluate / mul_evaluate / div_evaluate, overloads    *)
(* parallel_* and parallel_vectorized_*                                     *)
(***************************************************************************)
\* auto batch = n / threads
batch == n \div threads

\* variant: a pool chunk that runs one element into the next chunk
PoolChunk_Overlap(k) == [first |-> k * batch, last |-> Min((k + 1) * batch + 1, n)]

\* the chunk of the t-th task handed to the pool
PoolChunk(k) == [first |-> k * batch, last |-> (k + 1) * batch]

\* variant: the last chunk does not absorb the remainder of n / threads
OwnChunk_NoRemainder == [first |-> (threads - 1) * batch, last |-> threads * batch]

\* the chunk the calling thread executes itself
OwnChunk == [first |-> (threads - 1) * batch, last |-> n]

\* a functor right after its construction
NewTask(c, by) ==
    [first |-> c.first, last |-> c.last, by |-> by, st |-> "queued", pos |-> 0, tmp |-> <<>>]

\* operator() has issued all its accesses
Exhausted(tk) == tk.pos = Len(Functor(tk.first, tk.last))

\* operator() is entered: a functor over an empty range returns at once
Call(tk) == [tk EXCEPT !.st = IF Exhausted(tk) THEN "finished" ELSE "running"]

\* one step of operator(): the next access of functor k.  The compound functors
\* read the destination and write it back in two steps (lhs[i] += rhs[i]).
ExecTasks(k) ==
    LET tk == tasks[k]
        a  == Functor(tk.first, tk.last)[tk.pos + 1]
    IN  IF op /= "assign" /\ tk.tmp = <<>>
        THEN [tasks EXCEPT ![k].tmp = [j \in 1..a.w |-> result[a.i + j - 1]]]
        ELSE [tasks EXCEPT ![k] = Call([tk EXCEPT !.tmp = <<>>, !.pos = tk.pos + 1])]

ExecResult(k) ==
    LET tk == tasks[k]
        a  == Functor(tk.first, tk.last)[tk.pos + 1]
    IN  IF op /= "assign" /\ tk.tmp = <<>>
        THEN result
        ELSE [j \in DOMAIN result |->
                IF a.i <= j /\ j < a.i + a.w
                THEN Combine(op, IF op = "assign" THEN 0 ELSE tk.tmp[j - a.i + 1], rhs(j))
                ELSE result[j]]

parConfig == <<n, threads, parallel_threshold, unroll_normal_loops,
               unroll_vectorized_loops, op, vec, strategy, lhs_base, expr_rhs>>

\* variant: the threshold test does not look at the number of threads
Enter_IgnoresThreads ==
    /\ pc = "entry"
    /\ op /= "mod"
    /\ strategy \in {"parallel", "parallel_vectorized"}
    /\ evals' = IF op = "assign" THEN evals ELSE evals + 1
    /\ IF n < parallel_threshold
       THEN /\ tasks' = <<Call(NewTask([first |-> 0, last |-> n], "caller"))>>
            /\ pc' = IF tasks'[1].st = "finished" THEN "returned" ELSE "single"
            /\ t' = t
       ELSE /\ pc' = "dispatch"
            /\ t' = 0
            /\ tasks' = tasks
    /\ UNCHANGED <<parConfig, result, gpuVars, topVars, clsVars, dirVars, dynVars>>

\* entry of the evaluation: threshold test and, for the compound operators,
\* evaluation of the sub expressions; below the threshold the functor runs over [0, n)
Enter ==
    /\ pc = "entry"
    /\ op /= "mod"
    /\ strategy \in {"parallel", "parallel_vectorized"}
    /\ evals' = IF op = "assign" THEN evals ELSE evals + 1
    /\ IF n < parallel_threshold \/ threads < 2
       THEN /\ tasks' = <<Call(NewTask([first |-> 0, last |-> n], "caller"))>>
            /\ pc' = IF tasks'[1].st = "finished" THEN "returned" ELSE "single"
            /\ t' = t
       ELSE /\ pc' = "dispatch"
            /\ t' = 0
            /\ tasks' = tasks
    /\ UNCHANGED <<parConfig, result, gpuVars, topVars, clsVars, dirVars, dynVars>>

\* variant: the sub expressions are evaluated before the call of the loop as well
EnterSequential_EvaluatesTwice ==
    /\ pc = "entry"
    /\ op /= "mod"
    /\ strategy \in {"standard", "fast", "direct", "vectorized"}
    /\ evals' = IF op = "assign" THEN evals ELSE evals + 2
    /\ tasks' = <<Call(NewTask([first |-> 0, last |-> n], "caller"))>>
    /\ pc' = IF tasks'[1].st = "finished" THEN "returned" ELSE "single"
    /\ UNCHANGED <<parConfig, result, t, gpuVars, topVars, clsVars, dirVars, dynVars>>

\* entry of the overloads that run on the calling thread only: standard (the loop
\* over result[i]), fast (std::copy), direct and vectorized (one functor over
\* [0, size)); the compound ones evaluate the sub expressions first
EnterSequential ==
    /\ pc = "entry"
    /\ op /= "mod"
    /\ strategy \in {"standard", "fast", "direct", "vectorized"}
    /\ evals' = IF op = "assign" THEN evals ELSE evals + 1
    /\ tasks' = <<Call(NewTask([first |-> 0, last |-> n], "caller"))>>
    /\ pc' = IF tasks'[1].st = "finished" THEN "returned" ELSE "single"
    /\ UNCHANGED <<parConfig, result, t, gpuVars, topVars, clsVars, dirVars, dynVars>>

\* mod_evaluate: the only overload, whatever the traits of the expression and of
\* the destination: evaluate_only, then the loop result[i] %= expr[i]
ModEvaluate ==
    /\ pc = "entry"
    /\ op = "mod"
    /\ evals' = evals + 1
    /\ tasks' = <<Call(NewTask([first |-> 0, last |-> n], "caller"))>>
    /\ pc' = IF tasks'[1].st = "finished" THEN "returned" ELSE "single"
    /\ UNCHANGED <<parConfig, result, t, gpuVars, topVars, clsVars, dirVars, dynVars>>

\* for(t = 0; t < threads - 1; ++t) pool.do_task(Functor(t * batch, (t+1) * batch))
Dispatch ==
    /\ pc = "dispatch"
    /\ t < threads - 1
    /\ tasks' = Append(tasks, NewTask(PoolChunk(t), "pool"))
    /\ t' = t + 1
    /\ UNCHANGED <<parConfig, result, pc, evals, gpuVars, topVars, clsVars, dirVars, dynVars>>

\* Functor((threads - 1) * batch, n)(): the last chunk runs on the calling thread
RunOwn ==
    /\ pc = "dispatch"
    /\ ~(t < threads - 1)
    /\ tasks' = Append(tasks, Call(NewTask(OwnChunk, "caller")))
    /\ pc' = IF tasks'[Len(tasks')].st = "finished" THEN "wait" ELSE "own"
    /\ UNCHANGED <<parConfig, result, t, evals, gpuVars, topVars, clsVars, dirVars, dynVars>>

\* the calling thread inside operator() of its functor
CallerStep ==
    /\ pc \in {"single", "own"}
    /\ tasks' = ExecTasks(Len(tasks))
    /\ result' = ExecResult(Len(tasks))
    /\ pc' = IF tasks'[Len(tasks)].st /= "finished" THEN pc
             ELSE IF pc = "single" THEN "returned" ELSE "wait"
    /\ UNCHANGED <<parConfig, t, evals, gpuVars, topVars, clsVars, dirVars, dynVars>>

\* pool.wait(): all the tasks handed to the pool are retired
pool_wait == \A k \in 1..Len(tasks) : tasks[k].by = "pool" => tasks[k].st = "finished"

\* variant: return without pool.wait()
WaitReturn_NoBarrier ==
    /\ pc = "wait"
    /\ pc' = "returned"
    /\ UNCHANGED <<parConfig, result, t, tasks, evals, gpuVars, topVars, clsVars, dirVars, dynVars>>

\* pool.wait(); return
WaitReturn ==
    /\ pc = "wait"
    /\ pool_wait
    /\ pc' = "returned"
    /\ UNCHANGED <<parConfig, result, t, tasks, evals, gpuVars, topVars, clsVars, dirVars, dynVars>>

\* the tasks in the queue of the pool, the tasks a worker thread is running
Queued == {k \in 1..Len(tasks) : tasks[k].by = "pool" /\ tasks[k].st = "queued"}
Running == {k \in 1..Len(tasks) : tasks[k].by = "pool" /\ tasks[k].st = "running"}

\* variant: the pool is constructed with one thread less
WorkerTake_PoolTooSmall(k) ==
    /\ k \in Queued
    /\ \A j \in Queued : k <= j
    /\ Cardinality(Running) < threads - 2
    /\ tasks' = [tasks EXCEPT ![k] = Call(tasks[k])]
    /\ UNCHANGED <<parConfig, result, pc, t, evals, gpuVars, topVars, clsVars, dirVars, dynVars>>

\* an idle worker thread of the pool (of threads - 1 threads) takes the oldest
\* queued task and calls it
WorkerTake(k) ==
    /\ k \in Queued
    /\ \A j \in Queued : k <= j
    /\ Cardinality(Running) < threads - 1
    /\ tasks' = [tasks EXCEPT ![k] = Call(tasks[k])]
    /\ UNCHANGED <<parConfig, result, pc, t, evals, gpuVars, topVars, clsVars, dirVars, dynVars>>

\* a worker thread inside operator() of the task it took
WorkerStep(k) ==
    /\ k \in Running
    /\ tasks' = ExecTasks(k)
    /\ result' = ExecResult(k)
    /\ UNCHANGED <<parConfig, pc, t, evals, gpuVars, topVars, clsVars, dirVars, dynVars>>

(***************************************************************************)
(* gpu_memory_handler (ETL_CUDA variant).  The operations are functions of *)
(* a record G holding the fields of all the handlers, the host buffers,    *)
(* the device memory and the effects of the call (copies, allocations,     *)
(* frees, failed assertion or failed device call).                         *)
(***************************************************************************)
\* two containers, each owning one gpu_memory_handler
Handlers == {1, 2}
\* device addresses (0 is nullptr)
Addrs == 1..MaxAddr
\* contents of a buffer: the handler never inspects them, two values suffice
Values == {0, 1}

\* the state at the entry of a call
Cur ==
    [mem |-> gpu_memory_, cpu |-> cpu_up_to_date, gpu |-> gpu_up_to_date,
     host |-> cpu_memory, dev |-> device, live |-> live,
     h2d |-> 0, d2h |-> 0, allocs |-> 0, frees |-> 0, fault |-> FALSE]

\* cpp_assert(c, ...)
cpp_assert(G, c) == IF c THEN G ELSE [G EXCEPT !.fault = TRUE]

is_gpu_allocated(G, h) == G.mem[h] /= 0

\* impl::cuda::cuda_allocate_only<T>(etl_size): address a, undefined contents v
cuda_allocate_only(G, h, a, v) ==
    [G EXCEPT !.mem[h] = a, !.live = @ \cup {a}, !.dev[a] = v, !.allocs = @ + 1]

gpu_allocate_impl(G, h, a, v) ==
    cuda_allocate_only(cpp_assert(G, ~is_gpu_allocated(G, h)), h, a, v)

\* cudaMemcpy(gpu_memory_, cpu_memory, ..., cudaMemcpyHostToDevice)
cudaMemcpyHostToDevice(G, h) ==
    IF G.mem[h] \in G.live
    THEN [G EXCEPT !.dev[G.mem[h]] = G.host[h], !.h2d = @ + 1]
    ELSE [G EXCEPT !.fault = TRUE, !.h2d = @ + 1]

\* cudaMemcpy(cpu_memory, gpu_memory_, ..., cudaMemcpyDeviceToHost)
cudaMemcpyDeviceToHost(G, h) ==
    IF G.mem[h] \in G.live
    THEN [G EXCEPT !.host[h] = G.dev[G.mem[h]], !.d2h = @ + 1]
    ELSE [G EXCEPT !.fault = TRUE, !.d2h = @ + 1]

\* cudaFree(gpu_memory_): the contents of freed memory are gone
cudaFree(G, h) ==
    IF G.mem[h] \in G.live
    THEN [G EXCEPT !.live = @ \ {G.mem[h]}, !.dev[G.mem[h]] = 0, !.frees = @ + 1]
    ELSE [G EXCEPT !.fault = TRUE, !.frees = @ + 1]

cpu_to_gpu(G, h) ==
    LET G1 == cpp_assert(G, is_gpu_allocated(G, h))
        G2 == cpp_assert(G1, ~G.gpu[h])
        G3 == cpp_assert(G2, G.cpu[h])
        G4 == cudaMemcpyHostToDevice(G3, h)
    IN  [G4 EXCEPT !.gpu[h] = TRUE]

gpu_to_cpu(G, h) ==
    LET G1 == cpp_assert(G, is_gpu_allocated(G, h))
        G2 == cpp_assert(G1, G.gpu[h])
        G3 == cpp_assert(G2, ~G.cpu[h])
        G4 == cudaMemcpyDeviceToHost(G3, h)
    IN  [G4 EXCEPT !.cpu[h] = TRUE]

\* variant: the wrong flag is cleared
invalidate_cpu_WrongFlag(G, h) == [G EXCEPT !.gpu[h] = FALSE]

invalidate_cpu(G, h) == [G EXCEPT !.cpu[h] = FALSE]

\* variant: the pointer is dropped as well
invalidate_gpu_DropsPointer(G, h) == [G EXCEPT !.gpu[h] = FALSE, !.mem[h] = 0]

invalidate_gpu(G, h) == [G EXCEPT !.gpu[h] = FALSE]

gpu_evict(G, h) ==
    invalidate_gpu(IF G.mem[h] /= 0 THEN cudaFree(G, h) ELSE G, h)

\* variant: the GPU memory is not marked up to date
ensure_gpu_allocated_NoMark(G, h, a, v) ==
    IF ~is_gpu_allocated(G, h) THEN gpu_allocate_impl(G, h, a, v) ELSE G

ensure_gpu_allocated(G, h, a, v) ==
    LET G1 == IF ~is_gpu_allocated(G, h) THEN gpu_allocate_impl(G, h, a, v) ELSE G
    IN  [G1 EXCEPT !.gpu[h] = TRUE]

\* variant: the allocation is not guarded by is_gpu_allocated
ensure_gpu_up_to_date_AlwaysAllocates(G, h, a, v) ==
    LET G1 == gpu_allocate_impl(G, h, a, v)
    IN  IF ~G1.gpu[h] THEN cpu_to_gpu(G1, h) ELSE G1

ensure_gpu_up_to_date(G, h, a, v) ==
    LET G1 == IF ~is_gpu_allocated(G, h) THEN gpu_allocate_impl(G, h, a, v) ELSE G
    IN  IF ~G1.gpu[h] THEN cpu_to_gpu(G1, h) ELSE G1

\* variant: the copy back is not guarded by cpu_up_to_date
ensure_cpu_up_to_date_NoGuard(G, h) == gpu_to_cpu(G, h)

ensure_cpu_up_to_date(G, h) ==
    IF ~G.cpu[h] THEN gpu_to_cpu(G, h) ELSE G

gpu_transfer_to(G, h, r) ==
    LET G1 == [G  EXCEPT !.mem[r] = G.mem[h]]
        G2 == [G1 EXCEPT !.mem[h] = 0]
        G3 == [G2 EXCEPT !.gpu[h] = FALSE]
        G4 == [G3 EXCEPT !.gpu[r] = TRUE]
    IN  [G4 EXCEPT !.cpu[r] = FALSE]

\* a device-only operation (egblas scalar_add) on the GPU memory of h
scalar_add(G, h, v) ==
    IF G.mem[h] \in G.live
    THEN [G EXCEPT !.dev[G.mem[h]] = v]
    ELSE [G EXCEPT !.fault = TRUE]

\* kind of flags of handler h
HostFresh(h)   == cpu_up_to_date[h] /\ ~gpu_up_to_date[h]
DeviceFresh(h) == ~cpu_up_to_date[h] /\ gpu_up_to_date[h]
Both(h)        == cpu_up_to_date[h] /\ gpu_up_to_date[h]
Neither(h)     == ~cpu_up_to_date[h] /\ ~gpu_up_to_date[h]

\* progress of the scenario "ensure_gpu_up_to_date, device-only operation,
\* invalidate_cpu, ensure_cpu_up_to_date, ensure_cpu_up_to_date" run on a newly
\* constructed container (step 6: the calls made are not this scenario)
TripNext(name, h, v) ==
    CASE trip.step = 0 /\ name = "ensure_gpu_up_to_date"
            -> [h |-> h, step |-> 1, val |-> 0]
      [] trip.step = 1 /\ name = "scalar_add" /\ h = trip.h
            -> [h |-> h, step |-> 2, val |-> v]
      [] trip.step = 2 /\ name = "invalidate_cpu" /\ h = trip.h
            -> [trip EXCEPT !.step = 3]
      [] trip.step = 3 /\ name = "ensure_cpu_up_to_date" /\ h = trip.h
            -> [trip EXCEPT !.step = 4]
      [] trip.step = 4 /\ name = "ensure_cpu_up_to_date" /\ h = trip.h
            -> [trip EXCEPT !.step = 5]
      [] OTHER
            -> [h |-> 0, step |-> 6, val |-> 0]

\* the call returns with the effects G.  cpp_assert compiles to nothing in a
\* release build; last.fault records that an assertion or a device call failed
\* (a debug build stops there, its runs are prefixes of the runs modelled here)
Commit(G, name, h, r, v) ==
    /\ last' = [op |-> name, h |-> h, to |-> r, h2d |-> G.h2d, d2h |-> G.d2h,
                allocs |-> G.allocs, frees |-> G.frees, fault |-> G.fault]
    /\ trip' = TripNext(name, h, v)
    /\ gpu_memory_' = G.mem
    /\ cpu_up_to_date' = G.cpu
    /\ gpu_up_to_date' = G.gpu
    /\ cpu_memory' = G.host
    /\ device' = G.dev
    /\ live' = G.live
    /\ UNCHANGED <<parVars, topVars, clsVars, dirVars, dynVars>>

\* the addresses cudaMalloc may return to a call on h (0: the call does not allocate)
AllocChoices(h) == IF gpu_memory_[h] = 0 THEN Addrs \ live ELSE {0}
\* the undefined contents of newly allocated device memory
AllocContents(h) == IF gpu_memory_[h] = 0 THEN Values ELSE {0}

\* dense_dyn_base::gpu_evict
GpuEvict(h) ==
    Commit(gpu_evict(Cur, h), "gpu_evict", h, 0, 0)

\* dense_dyn_base::invalidate_cpu.  The callers keep the contract of the
\* handler: the host copy is never invalidated while it is the only valid one
InvalidateCpu(h) ==
    /\ ~HostFresh(h)
    /\ Commit(invalidate_cpu(Cur, h), "invalidate_cpu", h, 0, 0)

\* dense_dyn_base::invalidate_gpu
InvalidateGpu(h) ==
    Commit(invalidate_gpu(Cur, h), "invalidate_gpu", h, 0, 0)

\* dense_dyn_base::ensure_gpu_allocated
EnsureGpuAllocated(h) ==
    \E a \in AllocChoices(h), v \in AllocContents(h) :
          Commit(ensure_gpu_allocated(Cur, h, a, v), "ensure_gpu_allocated", h, 0, 0)

\* dense_dyn_base::ensure_gpu_up_to_date
EnsureGpuUpToDate(h) ==
    \E a \in AllocChoices(h), v \in AllocContents(h) :
          Commit(ensure_gpu_up_to_date(Cur, h, a, v), "ensure_gpu_up_to_date", h, 0, 0)

\* dense_dyn_base::ensure_cpu_up_to_date
EnsureCpuUpToDate(h) ==
    Commit(ensure_cpu_up_to_date(Cur, h), "ensure_cpu_up_to_date", h, 0, 0)

\* dense_dyn_base::gpu_transfer_to(rhs), rhs the handler of another container
GpuTransferTo(h, r) ==
    /\ h /= r
    /\ Commit(gpu_transfer_to(Cur, h, r), "gpu_transfer_to", h, r, 0)

\* a kernel writes the GPU memory of h
ScalarAdd(h, v) ==
    Commit(scalar_add(Cur, h, v), "scalar_add", h, 0, v)

(***************************************************************************)
(* gpu_memory_handler without ETL_CUDA: the handler has no fields; N holds *)
(* the host buffers of the containers and the value a call returns         *)
(***************************************************************************)
\* elements a program stores into a container
HostValues == {0, 1, 2}

CurNoCuda == [host |-> cpu_memory, ret |-> 0]

\* return nullptr
nocuda_gpu_memory(N, h) == [N EXCEPT !.ret = 0]

nocuda_gpu_evict(N, h) == N

nocuda_invalidate_cpu(N, h) == N

nocuda_invalidate_gpu(N, h) == N

nocuda_ensure_gpu_allocated(N, h) == N

nocuda_ensure_gpu_up_to_date(N, h) == N

\* variant: the host buffer is overwritten from a device buffer that does not exist
nocuda_ensure_cpu_up_to_date_Copies(N, h) == [N EXCEPT !.host[h] = 0]

nocuda_ensure_cpu_up_to_date(N, h) == N

nocuda_gpu_transfer_to(N, h, r) == N

\* the residency operations of dense_dyn_base
ResidencyOps ==
    {"gpu_evict", "invalidate_cpu", "invalidate_gpu", "ensure_gpu_allocated",
     "ensure_gpu_up_to_date", "ensure_cpu_up_to_date", "gpu_transfer_to"}

\* the state after a call of the build without ETL_CUDA (any: a residency
\* operation has been called since the construction)
CommitNoCuda(N, name, h, r) ==
    /\ last' = [op |-> name, h |-> h, to |-> r, ret |-> N.ret,
                any |-> (last.any \/ name \in ResidencyOps)]
    /\ cpu_memory' = N.host
    /\ UNCHANGED <<gpu_memory_, cpu_up_to_date, gpu_up_to_date, device, live, trip, parVars, topVars, clsVars, dirVars, dynVars>>

NoCudaGpuMemory(h) == CommitNoCuda(nocuda_gpu_memory(CurNoCuda, h), "gpu_memory", h, 0)

NoCudaGpuEvict(h) == CommitNoCuda(nocuda_gpu_evict(CurNoCuda, h), "gpu_evict", h, 0)

NoCudaInvalidateCpu(h) ==
    CommitNoCuda(nocuda_invalidate_cpu(CurNoCuda, h), "invalidate_cpu", h, 0)

NoCudaInvalidateGpu(h) ==
    CommitNoCuda(nocuda_invalidate_gpu(CurNoCuda, h), "invalidate_gpu", h, 0)

NoCudaEnsureGpuAllocated(h) ==
    CommitNoCuda(nocuda_ensure_gpu_allocated(CurNoCuda, h), "ensure_gpu_allocated", h, 0)

NoCudaEnsureGpuUpToDate(h) ==
    CommitNoCuda(nocuda_ensure_gpu_up_to_date(CurNoCuda, h), "ensure_gpu_up_to_date", h, 0)

NoCudaEnsureCpuUpToDate(h) ==
    CommitNoCuda(nocuda_ensure_cpu_up_to_date(CurNoCuda, h), "ensure_cpu_up_to_date", h, 0)

NoCudaGpuTransferTo(h, r) ==
    /\ h /= r
    /\ CommitNoCuda(nocuda_gpu_transfer_to(CurNoCuda, h, r), "gpu_transfer_to", h, r)

\* dense_dyn_base::operator()(i) = v: the program stores into the container
HostWrite(h, v) ==
    CommitNoCuda([CurNoCuda EXCEPT !.host[h] = v], "write", h, 0)

(***************************************************************************)
(* Top level entry: etl::assign_evaluate, etl::add_evaluate ... and        *)
(* standard_evaluator::assign_evaluate.  result is a dim x dim matrix R;   *)
(* an expression is [sub, tr, order, opt]: a view of the container sub     *)
(* ("R", another container "S", or a generator "gen"), transposed tr       *)
(* times, of storage order order, wrapped for the optimizer if opt.  The   *)
(* views "Rlo" and "Rhi" are views of the memory of R shifted by one       *)
(* element: R, like S, is part of a larger buffer.                         *)
(***************************************************************************)
Orders == {"RowMajor", "ColumnMajor"}

TopOps == {"assign", "add", "sub", "mul", "div", "mod"}

\* transpose(expr): a view that swaps the two indices
transpose(e) == [e EXCEPT !.tr = @ + 1]

\* decay_traits<E>::is_linear: a transposed view is not read in element order
is_linear(e) == e.tr = 0

\* decay_traits<E>::is_generator
is_generator(e) == e.sub = "gen"

\* is_optimized_expr<E>
is_optimized_expr(e) == e.opt

\* optimized_forward(expr.value(), ...): the expression the optimizer hands back
optimized_forward(e) == [e EXCEPT !.opt = FALSE]

\* variant: a generator is rewritten like any other expression
direct_assign_compatible_NoGenerator(e) == e.order = order_R

\* direct_assign_compatible<Expr, Result>
direct_assign_compatible(e) == is_generator(e) \/ e.order = order_R

\* contents of R before the evaluation, contents of S, value of the generator,
\* contents of the memory in front of R
R0(i) == i + 1
S0(i) == 100 + i
gen0(i) == 7
front0(i) == 50 + i

\* offset of the first element of a view from the first element of R
shift(c) == CASE c = "Rlo" -> 0 - 1 [] c = "Rhi" -> 1 [] OTHER -> 0

\* memory_start() and memory_end() of the containers: S lies right behind R
memory_start(c) == IF c \in {"R", "Rlo", "Rhi"} THEN shift(c) ELSE dim * dim
memory_end(c) == memory_start(c) + dim * dim

\* memory_alias(a_begin, a_end, b_begin, b_end): the two ranges overlap
memory_alias(a_begin, a_end, b_begin, b_end) == a_begin < b_end /\ b_begin < a_end

\* result.alias(expr): a container compares the memory ranges, a view asks the
\* container it views, a generator has no memory
alias(e) ==
    IF is_generator(e) THEN FALSE
    ELSE memory_alias(memory_start("R"), memory_end("R"),
                      memory_start(e.sub), memory_end(e.sub))

\* expr.read_flat(i) while result holds M
read_flat(e, i, M) ==
    LET j == IF e.tr % 2 = 1 THEN (i % dim) * dim + (i \div dim) ELSE i
        k == j + shift(e.sub)
    IN  CASE e.sub = "R" -> M[j]
          [] e.sub \in {"Rlo", "Rhi"} ->
                 IF k < 0 THEN front0(k) ELSE IF k >= dim * dim THEN S0(k - dim * dim) ELSE M[k]
          [] e.sub = "S" -> S0(j)
          [] OTHER       -> gen0(j)

\* force_temporary(result): a new container holding a copy of result
force_temporary(M) == M

\* variant: the temporary is used for the linear expressions
NeedsTemporary_Linear == is_linear(fwd) /\ alias(fwd)

\* !linear && result.alias(expr)
NeedsTemporary == ~is_linear(fwd) /\ alias(fwd)

\* etl::assign_evaluate of an optimizer wrapper: the optimized expression is
\* assigned instead
OptimizedForward ==
    /\ top_pc = "top"
    /\ top_op = "assign"
    /\ is_optimized_expr(fwd)
    /\ fwd' = optimized_forward(fwd)
    /\ UNCHANGED <<top_op, expr, order_R, dim, top_pc, idx, tmp_result, mem_R, parVars, gpuVars, clsVars, dirVars, dynVars>>

\* etl::assign_evaluate / add_evaluate / ... / mod_evaluate: the expression or
\* its transpose goes to standard_evaluator
Forward ==
    /\ top_pc = "top"
    /\ ~(top_op = "assign" /\ is_optimized_expr(fwd))
    /\ fwd' = IF direct_assign_compatible(fwd) THEN fwd ELSE transpose(fwd)
    /\ top_pc' = IF top_op = "assign" THEN "assign_evaluate" ELSE "forwarded"
    /\ UNCHANGED <<top_op, expr, order_R, dim, idx, tmp_result, mem_R, parVars, gpuVars, clsVars, dirVars, dynVars>>

\* standard_evaluator::assign_evaluate up to the first call of assign_evaluate_impl
AssignEvaluate ==
    /\ top_pc = "assign_evaluate"
    /\ idx' = 0
    /\ IF NeedsTemporary
       THEN tmp_result' = force_temporary(mem_R) /\ top_pc' = "to_tmp"
       ELSE tmp_result' = tmp_result /\ top_pc' = "to_result"
    /\ UNCHANGED <<top_op, expr, order_R, dim, fwd, mem_R, parVars, gpuVars, clsVars, dirVars, dynVars>>

\* assign_evaluate_impl(expr, tmp_result): tmp_result[i] = expr.read_flat(i)
StepToTmp ==
    /\ top_pc = "to_tmp"
    /\ IF idx < dim * dim
       THEN /\ tmp_result' = [tmp_result EXCEPT ![idx] = read_flat(fwd, idx, mem_R)]
            /\ idx' = idx + 1
            /\ top_pc' = top_pc
       ELSE /\ tmp_result' = tmp_result
            /\ idx' = 0
            /\ top_pc' = "from_tmp"
    /\ UNCHANGED <<top_op, expr, order_R, dim, fwd, mem_R, parVars, gpuVars, clsVars, dirVars, dynVars>>

\* assign_evaluate_impl(tmp_result, result): result[i] = tmp_result[i]
StepFromTmp ==
    /\ top_pc = "from_tmp"
    /\ IF idx < dim * dim
       THEN /\ mem_R' = [mem_R EXCEPT ![idx] = tmp_result[idx]]
            /\ idx' = idx + 1
            /\ top_pc' = top_pc
       ELSE /\ mem_R' = mem_R
            /\ idx' = idx
            /\ top_pc' = "done"
    /\ UNCHANGED <<top_op, expr, order_R, dim, fwd, tmp_result, parVars, gpuVars, clsVars, dirVars, dynVars>>

\* assign_evaluate_impl(expr, result): result[i] = expr.read_flat(i)
StepToResult ==
    /\ top_pc = "to_result"
    /\ IF idx < dim * dim
       THEN /\ mem_R' = [mem_R EXCEPT ![idx] = read_flat(fwd, idx, mem_R)]
            /\ idx' = idx + 1
            /\ top_pc' = top_pc
       ELSE /\ mem_R' = mem_R
            /\ idx' = idx
            /\ top_pc' = "done"
    /\ UNCHANGED <<top_op, expr, order_R, dim, fwd, tmp_result, parVars, gpuVars, clsVars, dirVars, dynVars>>

\* a call of etl::*_evaluate(expr, result)
InitTop ==
    /\ top_op \in TopOps
    /\ expr \in [sub : {"R", "Rlo", "Rhi", "S", "gen"}, tr : {0, 1}, order : Orders, opt : BOOLEAN]
    /\ order_R \in Orders
    /\ dim \in 1..MaxDim
    /\ fwd = expr
    /\ top_pc = "top"
    /\ idx = 0
    /\ tmp_result = <<>>
    /\ mem_R = [i \in 0..(dim * dim - 1) |-> R0(i)]

\* the top level entry is not in use
IdleTop ==
    /\ top_op = "assign"
    /\ expr = [sub |-> "gen", tr |-> 0, order |-> "RowMajor", opt |-> FALSE]
    /\ order_R = "RowMajor"
    /\ dim = 1
    /\ fwd = expr
    /\ top_pc = "idle"
    /\ idx = 0
    /\ tmp_result = <<>>
    /\ mem_R = <<>>

NextTop ==
    \/ OptimizedForward
    \/ Forward
    \/ AssignEvaluate
    \/ StepToTmp
    \/ StepFromTmp
    \/ StepToResult

(***************************************************************************)
(* standard_evaluator::assign_evaluate of a temporary expression.  The     *)
(* expression is [kind, a, b]; an operand is the chain of expression nodes *)
(* from its root down to a container, "T" a node that produces a temporary *)
(* and "P" one that does not.                                              *)
(***************************************************************************)
NodeKinds == {"T", "P"}

\* the operand chains of at most MaxDepth nodes
Chains == UNION {[1..k -> NodeKinds] : k \in 0..MaxDepth}

\* the node assigned, and node k of an operand
TopNode == <<"top", 0>>
Nodes == {TopNode} \cup ({"a", "b"} \X (1..MaxDepth))

\* expr.a(), expr.b(): the nodes of one operand
OperandNodes(e, o) == {o} \X (1..Len(IF o = "a" THEN e.a ELSE e.b))

\* the nodes a visitor applied to root reaches: the node and everything below it
Reached(e, root) ==
    IF root = "top"
    THEN {TopNode} \cup OperandNodes(e, "a") \cup OperandNodes(e, "b")
    ELSE OperandNodes(e, root)

\* is_temporary_expr of a node
is_temporary_expr(e, nd) ==
    \/ nd = TopNode
    \/ nd[1] = "a" /\ e.a[nd[2]] = "T"
    \/ nd[1] = "b" /\ e.b[nd[2]] = "T"

\* variant: the whole expression is handed to the visitors, as evaluate_only does
Calls_VisitsExpression(kind) ==
    << <<"allocator", "top">>, <<"evaluator", "top">>, <<"direct", "top">> >>

\* the calls assign_evaluate makes, in order: the visitor and what it is applied to
Calls(kind) ==
    IF kind = "unary"
    THEN << <<"allocator", "a">>, <<"evaluator", "a">>, <<"direct", "top">> >>
    ELSE << <<"allocator", "a">>, <<"allocator", "b">>,
            <<"evaluator", "a">>, <<"evaluator", "b">>, <<"direct", "top">> >>

\* the call assign_evaluate makes next
NextCall == Calls(d_expr.kind)[d_step + 1]

\* apply_visitor<detail::temporary_allocator_static_visitor>(operand): every node
\* reached is visited, a temporary is allocated for those that produce one
ApplyAllocator ==
    /\ d_step < Len(Calls(d_expr.kind))
    /\ NextCall[1] = "allocator"
    /\ d_alloc' = [nd \in Nodes |->
                      IF nd \in Reached(d_expr, NextCall[2]) THEN d_alloc[nd] + 1 ELSE d_alloc[nd]]
    /\ d_temps' = d_temps \cup
                      {nd \in Reached(d_expr, NextCall[2]) : is_temporary_expr(d_expr, nd)}
    /\ d_step' = d_step + 1
    /\ UNCHANGED <<d_expr, d_eval, d_direct, parVars, gpuVars, topVars, clsVars, dynVars>>

\* apply_visitor<detail::evaluator_static_visitor>(operand): every node reached is
\* visited, those that produce a temporary are evaluated into it
ApplyEvaluator ==
    /\ d_step < Len(Calls(d_expr.kind))
    /\ NextCall[1] = "evaluator"
    /\ d_eval' = [nd \in Nodes |->
                      IF nd \in Reached(d_expr, NextCall[2]) THEN d_eval[nd] + 1 ELSE d_eval[nd]]
    /\ d_step' = d_step + 1
    /\ UNCHANGED <<d_expr, d_alloc, d_temps, d_direct, parVars, gpuVars, topVars, clsVars, dynVars>>

\* expr.direct_evaluate(result)
DirectEvaluate ==
    /\ d_step < Len(Calls(d_expr.kind))
    /\ NextCall[1] = "direct"
    /\ d_direct' = d_direct + 1
    /\ d_step' = d_step + 1
    /\ UNCHANGED <<d_expr, d_alloc, d_eval, d_temps, parVars, gpuVars, topVars, clsVars, dynVars>>

\* a call of assign_evaluate(expr, result), expr a temporary unary or binary
\* expression; a unary expression has no operand b
InitDirect ==
    /\ d_expr \in [kind : {"unary", "binary"}, a : Chains, b : Chains]
    /\ d_expr.kind = "unary" => d_expr.b = <<>>
    /\ d_step = 0
    /\ d_alloc = [nd \in Nodes |-> 0]
    /\ d_eval = [nd \in Nodes |-> 0]
    /\ d_temps = {}
    /\ d_direct = 0

\* no temporary expression is being assigned
IdleDirect ==
    /\ d_expr = [kind |-> "unary", a |-> <<>>, b |-> <<>>]
    /\ d_step = 3
    /\ d_alloc = [nd \in Nodes |-> 0]
    /\ d_eval = [nd \in Nodes |-> 0]
    /\ d_temps = {}
    /\ d_direct = 0

NextDirect ==
    \/ ApplyAllocator
    \/ ApplyEvaluator
    \/ DirectEvaluate

(***************************************************************************)
(* dyn_base<T, D> and dense_dyn_base: the size and the dimensions of the   *)
(* containers a program constructs                                         *)
(***************************************************************************)
\* the containers of the program
Slots == {1, 2}

\* the values of a dimension, and the dimensions of a container or expression
Extents == 0..MaxExtent
Dimensions == [1..Rank -> Extents]

\* multiplication of two std::size_t
mul(a, b) == (a * b) % SizeT

\* variant: the dimensions are added up
RECURSIVE dyn_detail_size_Sum(_)
dyn_detail_size_Sum(dims) ==
    IF Len(dims) = 1 THEN dims[1] ELSE (dims[1] + dyn_detail_size_Sum(Tail(dims))) % SizeT

\* dyn_detail::size(first, args...)
RECURSIVE dyn_detail_size(_)
dyn_detail_size(dims) ==
    IF Len(dims) = 1 THEN dims[1] ELSE mul(dims[1], dyn_detail_size(Tail(dims)))

\* std::accumulate(_dimensions.begin(), _dimensions.end(), std::size_t(1), multiplies)
RECURSIVE accumulate(_, _)
accumulate(dims, acc) ==
    IF dims = <<>> THEN acc ELSE accumulate(Tail(dims), mul(acc, Head(dims)))

\* etl::size(rhs) of an expression of dimensions dims
etl_size(dims) == accumulate(dims, 1)

\* storage of a container that has not been constructed
NotBuilt == [built |-> FALSE, by |-> "none", size |-> 0, dimensions |-> [d \in 1..Rank |-> 0]]

\* the constructor by has run on container s
Construct(s, by, size, dimensions) ==
    /\ ~objs[s].built
    /\ objs' = [objs EXCEPT ![s] =
                  [built |-> TRUE, by |-> by, size |-> size, dimensions |-> dimensions]]
    /\ UNCHANGED <<dyn_ret, parVars, gpuVars, topVars, clsVars, dirVars>>

\* dyn_base(): _size(0), the dimensions filled with 0
DefaultConstruct(s) ==
    Construct(s, "default", 0, [d \in 1..Rank |-> 0])

\* dyn_base(size, dimensions), called by a container with the size of its dimensions
SizedConstruct(s, dims) ==
    Construct(s, "sized", dyn_detail_size(dims), dims)

\* dyn_base(const dyn_base& rhs) = default
CopyConstruct(s, r) ==
    /\ objs[r].built
    /\ Construct(s, "copy", objs[r].size, objs[r].dimensions)

\* dyn_base(dyn_base&& rhs) = default: rhs keeps its size and dimensions
MoveConstruct(s, r) ==
    /\ objs[r].built
    /\ Construct(s, "move", objs[r].size, objs[r].dimensions)

\* dyn_base(E&& rhs): _size(etl::size(rhs)), _dimensions[d] = etl::dim(rhs, d)
ExprConstruct(s, dims) ==
    Construct(s, "expr", etl_size(dims), [d \in 1..Rank |-> dims[d]])

\* a const member function of container s returns val
Return(s, name, val) ==
    /\ objs[s].built
    /\ dyn_ret' = [op |-> name, s |-> s, val |-> val]
    /\ UNCHANGED <<objs, parVars, gpuVars, topVars, clsVars, dirVars>>

\* size()
DynSize(s) == Return(s, "size", objs[s].size)

\* rows()
DynRows(s) == Return(s, "rows", objs[s].dimensions[1])

\* columns()
DynColumns(s) == Rank > 1 /\ Return(s, "columns", objs[s].dimensions[2])

\* dim(d)
DynDim(s, d) == Return(s, "dim", objs[s].dimensions[d])

\* memory_end() - memory_start()
DynMemoryEnd(s) == Return(s, "memory_end", objs[s].size)

\* no container has been constructed yet
InitDyn ==
    /\ objs = [s \in Slots |-> NotBuilt]
    /\ dyn_ret = [op |-> "none", s |-> 0, val |-> 0]

\* the program constructs no container
IdleDyn == InitDyn

NextDyn ==
    \/ \E s \in Slots : DefaultConstruct(s)
    \/ \E s \in Slots, dims \in Dimensions : SizedConstruct(s, dims)
    \/ \E s \in Slots, r \in Slots : CopyConstruct(s, r)
    \/ \E s \in Slots, r \in Slots : MoveConstruct(s, r)
    \/ \E s \in Slots, dims \in Dimensions : ExprConstruct(s, dims)
    \/ \E s \in Slots : DynSize(s)
    \/ \E s \in Slots : DynRows(s)
    \/ \E s \in Slots : DynColumns(s)
    \/ \E s \in Slots, d \in 1..Rank : DynDim(s, d)
    \/ \E s \in Slots : DynMemoryEnd(s)

(***************************************************************************)
(* Specifications                                                          *)
(***************************************************************************)
NoLast == [op |-> "none", h |-> 0, to |-> 0, h2d |-> 0, d2h |-> 0,
           allocs |-> 0, frees |-> 0, fault |-> FALSE]

\* a newly constructed container: the flags have default member initializers,
\* gpu_memory_ has none and holds an indeterminate value
InitGpu ==
    /\ gpu_memory_ \in [Handlers -> {0} \cup Addrs]
    /\ cpu_up_to_date = [h \in Handlers |-> TRUE]
    /\ gpu_up_to_date = [h \in Handlers |-> FALSE]
    /\ cpu_memory \in [Handlers -> Values]
    /\ device = [a \in Addrs |-> 0]
    /\ live = {}
    /\ last = NoLast
    /\ trip = [h |-> 0, step |-> 0, val |-> 0]

\* the knobs the selected functor never reads are fixed
InitPar ==
    /\ n \in 0..MaxN
    /\ threads \in 1..MaxThreads
    /\ parallel_threshold = ParallelThreshold
    /\ op \in Ops
    /\ vec \in BOOLEAN
    /\ strategy = (IF vec THEN "parallel_vectorized" ELSE "parallel")
    /\ unroll_normal_loops \in (IF vec THEN {FALSE} ELSE BOOLEAN)
    /\ unroll_vectorized_loops \in (IF vec THEN BOOLEAN ELSE {FALSE})
    /\ lhs_base \in (IF vec THEN {0, ElemSize} ELSE {0})
    /\ expr_rhs = "cycle"
    /\ result = [i \in 0..(n - 1) |-> result0(i)]
    /\ pc = "entry"
    /\ t = 0
    /\ tasks = <<>>
    /\ evals = 0

(***************************************************************************)
(* Selection of the strategy: the six overloads of assign_evaluate_impl,   *)
(* each enabled by its selector detail::*_assign<E, R>                      *)
(***************************************************************************)
Strategies == {"fast", "direct", "vectorized", "parallel", "parallel_vectorized", "standard"}

\* n < parallel_threshold || threads < 2 sends a parallel overload to its fallback
count_allows_parallel == ~(n < parallel_threshold \/ threads < 2)

\* the precondition of a strategy
legal(s) ==
    CASE s = "fast"                -> traits.byte_copy
      [] s = "direct"              -> traits.direct
      [] s = "vectorized"          -> traits.direct /\ traits.lanes
      [] s = "parallel"            -> traits.direct /\ count_allows_parallel
      [] s = "parallel_vectorized" -> traits.direct /\ traits.lanes /\ count_allows_parallel
      [] s = "standard"            -> TRUE

\* the position of a strategy in the order of preference: the order in which the
\* strategies are listed, or the most specialized one first
rank(s) ==
    IF traits.prefer = "listed"
    THEN CASE s = "fast" -> 1 [] s = "direct" -> 2 [] s = "vectorized" -> 3
           [] s = "parallel" -> 4 [] s = "parallel_vectorized" -> 5 [] s = "standard" -> 6
    ELSE CASE s = "fast" -> 1 [] s = "parallel_vectorized" -> 2 [] s = "parallel" -> 3
           [] s = "vectorized" -> 4 [] s = "direct" -> 5 [] s = "standard" -> 6

\* detail::*_assign<E, R>::value: the strategy is legal and no legal one is preferred
selector(s) == legal(s) /\ \A s2 \in Strategies : legal(s2) => rank(s) <= rank(s2)

\* variant: there is no standard overload
Classify_NoStandard ==
    /\ pc = "select"
    /\ chosen' = {s \in Strategies \ {"standard"} : selector(s)}
    /\ pc' = "selected"
    /\ UNCHANGED <<parConfig, result, t, tasks, evals, traits, gpuVars, topVars, dirVars, dynVars>>

\* the call assign_evaluate_impl(expr, result): the overloads that take part in the
\* resolution are those whose selector holds
Classify ==
    /\ pc = "select"
    /\ chosen' = {s \in Strategies : selector(s)}
    /\ pc' = "selected"
    /\ UNCHANGED <<parConfig, result, t, tasks, evals, traits, gpuVars, topVars, dirVars, dynVars>>

\* a pair (expression, result) of any traits, size and contents ahead of the call
InitClassify ==
    /\ traits \in [byte_copy : BOOLEAN, direct : BOOLEAN, lanes : BOOLEAN,
                    prefer : {"listed", "specialized"}]
    /\ chosen = {}
    /\ n \in 0..MaxClassifyN
    /\ threads \in 1..MaxThreads
    /\ parallel_threshold = ParallelThreshold
    /\ op = "assign"
    /\ vec = FALSE
    /\ strategy = "standard"
    /\ unroll_normal_loops = FALSE
    /\ unroll_vectorized_loops = FALSE
    /\ lhs_base = 0
    /\ expr_rhs \in {"cycle", "iota"}
    /\ result = [i \in 0..(n - 1) |-> result0(i)]
    /\ pc = "select"
    /\ t = 0
    /\ tasks = <<>>
    /\ evals = 0

\* no selection is under way
IdleClassify ==
    /\ traits = [byte_copy |-> FALSE, direct |-> FALSE, lanes |-> FALSE, prefer |-> "listed"]
    /\ chosen = {}

\* a call of one of the overloads that run on the calling thread only
InitSequential ==
    /\ strategy \in {"standard", "fast", "direct", "vectorized"}
    /\ op \in (CASE strategy = "standard" -> Ops \cup {"mod"}
                 [] strategy = "fast"     -> {"assign"}
                 [] OTHER                 -> Ops)
    /\ n \in 0..MaxSeqN
    /\ threads = 1
    /\ parallel_threshold = ParallelThreshold
    /\ vec = (strategy = "vectorized")
    /\ unroll_normal_loops \in (IF strategy = "direct" THEN BOOLEAN ELSE {FALSE})
    /\ unroll_vectorized_loops \in (IF vec THEN BOOLEAN ELSE {FALSE})
    /\ lhs_base \in (IF vec THEN {0, 2, ElemSize, 2 * ElemSize, 3 * ElemSize} ELSE {0})
    /\ expr_rhs \in (IF op = "assign" THEN {"cycle", "iota"} ELSE {"cycle"})
    /\ result = [i \in 0..(n - 1) |-> result0(i)]
    /\ pc = "entry"
    /\ t = 0
    /\ tasks = <<>>
    /\ evals = 0

\* a call of mod_evaluate; strategy is the one the traits select for the other
\* operators
InitMod ==
    /\ op = "mod"
    /\ strategy \in {"standard", "direct", "vectorized", "parallel", "parallel_vectorized"}
    /\ n \in 0..MaxModN
    /\ threads \in 1..MaxThreads
    /\ parallel_threshold = ParallelThreshold
    /\ vec = (strategy \in {"vectorized", "parallel_vectorized"})
    /\ unroll_normal_loops \in (IF strategy \in {"direct", "parallel"} THEN BOOLEAN ELSE {FALSE})
    /\ unroll_vectorized_loops \in (IF vec THEN BOOLEAN ELSE {FALSE})
    /\ lhs_base \in (IF vec THEN {0, ElemSize} ELSE {0})
    /\ expr_rhs = "cycle"
    /\ result = [i \in 0..(n - 1) |-> result0(i)]
    /\ pc = "entry"
    /\ t = 0
    /\ tasks = <<>>
    /\ evals = 0

\* a call of the parallel assign overloads under other values of parallel_threshold
InitThreshold ==
    /\ n \in 0..MaxThresholdN
    /\ threads \in 2..MaxThreads
    /\ parallel_threshold \in {0, MaxThresholdN}
    /\ op = "assign"
    /\ vec \in BOOLEAN
    /\ strategy = (IF vec THEN "parallel_vectorized" ELSE "parallel")
    /\ unroll_normal_loops = FALSE
    /\ unroll_vectorized_loops = FALSE
    /\ lhs_base \in (IF vec THEN {0, ElemSize} ELSE {0})
    /\ expr_rhs = "cycle"
    /\ result = [i \in 0..(n - 1) |-> result0(i)]
    /\ pc = "entry"
    /\ t = 0
    /\ tasks = <<>>
    /\ evals = 0

\* a call of a parallel overload with at least 2 threads
InitFair ==
    /\ n \in 0..MaxFairN
    /\ threads \in 2..MaxThreads
    /\ parallel_threshold \in {0, ParallelThreshold}
    /\ op \in {"assign", "add"}
    /\ vec \in BOOLEAN
    /\ strategy = (IF vec THEN "parallel_vectorized" ELSE "parallel")
    /\ unroll_normal_loops = FALSE
    /\ unroll_vectorized_loops = FALSE
    /\ lhs_base \in (IF vec THEN {0, ElemSize} ELSE {0})
    /\ expr_rhs = "cycle"
    /\ result = [i \in 0..(n - 1) |-> result0(i)]
    /\ pc = "entry"
    /\ t = 0
    /\ tasks = <<>>
    /\ evals = 0

\* no evaluation is running
IdlePar ==
    /\ n = 0
    /\ threads = 1
    /\ parallel_threshold = 0
    /\ op = "assign"
    /\ vec = FALSE
    /\ strategy = "standard"
    /\ unroll_normal_loops = FALSE
    /\ unroll_vectorized_loops = FALSE
    /\ lhs_base = 0
    /\ expr_rhs = "cycle"
    /\ result = <<>>
    /\ pc = "idle"
    /\ t = 0
    /\ tasks = <<>>
    /\ evals = 0

\* no residency operation is called: one container, host only
IdleGpu ==
    /\ gpu_memory_ = [h \in Handlers |-> 0]
    /\ cpu_up_to_date = [h \in Handlers |-> TRUE]
    /\ gpu_up_to_date = [h \in Handlers |-> FALSE]
    /\ cpu_memory = [h \in Handlers |-> 0]
    /\ device = [a \in Addrs |-> 0]
    /\ live = {}
    /\ last = NoLast
    /\ trip = [h |-> 0, step |-> 0, val |-> 0]

NextPar ==
    \/ Enter
    \/ Dispatch
    \/ RunOwn
    \/ CallerStep
    \/ WaitReturn
    \/ \E k \in 1..MaxThreads : WorkerTake(k)
    \/ \E k \in 1..MaxThreads : WorkerStep(k)

NextEval ==
    \/ Enter
    \/ EnterSequential
    \/ ModEvaluate
    \/ Dispatch
    \/ RunOwn
    \/ CallerStep
    \/ WaitReturn
    \/ \E k \in 1..MaxThreads : WorkerTake(k)
    \/ \E k \in 1..MaxThreads : WorkerStep(k)

NextClassify == Classify

NextGpu ==
    \/ \E h \in Handlers : GpuEvict(h)
    \/ \E h \in Handlers : InvalidateCpu(h)
    \/ \E h \in Handlers : InvalidateGpu(h)
    \/ \E h \in Handlers : EnsureGpuAllocated(h)
    \/ \E h \in Handlers : EnsureGpuUpToDate(h)
    \/ \E h \in Handlers : EnsureCpuUpToDate(h)
    \/ \E h \in Handlers, r \in Handlers : GpuTransferTo(h, r)
    \/ \E h \in Handlers, v \in Values : ScalarAdd(h, v)

NextNoCuda ==
    \/ \E h \in Handlers : NoCudaGpuMemory(h)
    \/ \E h \in Handlers : NoCudaGpuEvict(h)
    \/ \E h \in Handlers : NoCudaInvalidateCpu(h)
    \/ \E h \in Handlers : NoCudaInvalidateGpu(h)
    \/ \E h \in Handlers : NoCudaEnsureGpuAllocated(h)
    \/ \E h \in Handlers : NoCudaEnsureGpuUpToDate(h)
    \/ \E h \in Handlers : NoCudaEnsureCpuUpToDate(h)
    \/ \E h \in Handlers, r \in Handlers : NoCudaGpuTransferTo(h, r)
    \/ \E h \in Handlers, v \in HostValues : HostWrite(h, v)

InitSpecPar == InitPar /\ IdleGpu /\ IdleTop /\ IdleClassify /\ IdleDirect /\ IdleDyn

SpecPar == InitSpecPar /\ [][NextPar]_vars

InitSpecGpu == IdlePar /\ InitGpu /\ IdleTop /\ IdleClassify /\ IdleDirect /\ IdleDyn

SpecGpu == InitSpecGpu /\ [][NextGpu]_vars

\* two newly constructed containers of a build without ETL_CUDA
InitSpecNoCuda ==
    /\ IdlePar
    /\ gpu_memory_ = [h \in Handlers |-> 0]
    /\ cpu_up_to_date = [h \in Handlers |-> TRUE]
    /\ gpu_up_to_date = [h \in Handlers |-> FALSE]
    /\ cpu_memory \in [Handlers -> HostValues]
    /\ device = [a \in Addrs |-> 0]
    /\ live = {}
    /\ last = [op |-> "none", h |-> 0, to |-> 0, ret |-> 0, any |-> FALSE]
    /\ trip = [h |-> 0, step |-> 0, val |-> 0]
    /\ IdleTop
    /\ IdleClassify
    /\ IdleDirect
    /\ IdleDyn

SpecNoCuda == InitSpecNoCuda /\ [][NextNoCuda]_vars

\* a call of any of the overloads of assign_evaluate_impl, add_evaluate, ...
InitSpecEval ==
    (InitPar \/ InitSequential \/ InitThreshold \/ InitMod)
        /\ IdleGpu /\ IdleTop /\ IdleClassify /\ IdleDirect /\ IdleDyn

SpecEval == InitSpecEval /\ [][NextEval]_vars

InitSpecTop == IdlePar /\ IdleGpu /\ InitTop /\ IdleClassify /\ IdleDirect /\ IdleDyn

InitSpecFair == InitFair /\ IdleGpu /\ IdleTop /\ IdleClassify /\ IdleDirect /\ IdleDyn

\* the calling thread keeps running and every worker thread of the pool is scheduled
\* fairly
Fairness ==
    /\ WF_vars(Enter)
    /\ WF_vars(Dispatch)
    /\ WF_vars(RunOwn)
    /\ WF_vars(CallerStep)
    /\ WF_vars(WaitReturn)
    /\ \A k \in 1..MaxThreads : WF_vars(WorkerTake(k))
    /\ \A k \in 1..MaxThreads : WF_vars(WorkerStep(k))

SpecFair == InitSpecFair /\ [][NextPar]_vars /\ Fairness

InitSpecClassify == InitClassify /\ IdleGpu /\ IdleTop /\ IdleDirect /\ IdleDyn

SpecClassify == InitSpecClassify /\ [][NextClassify]_vars

SpecTop == InitSpecTop /\ [][NextTop]_vars

InitSpecDirect == IdlePar /\ IdleGpu /\ IdleTop /\ IdleClassify /\ InitDirect /\ IdleDyn

SpecDirect == InitSpecDirect /\ [][NextDirect]_vars

InitSpecDyn == IdlePar /\ IdleGpu /\ IdleTop /\ IdleClassify /\ IdleDirect /\ InitDyn

SpecDyn == InitSpecDyn /\ [][NextDyn]_vars

(***************************************************************************)
(* Claims about the parallel evaluation (SpecPar)                          *)
(***************************************************************************)
\* the indices of the chunk of functor k
Range(k) == tasks[k].first .. (tasks[k].last - 1)
\* every chunk of the evaluation has been handed to a functor
AllHanded == \E k \in 1..Len(tasks) : tasks[k].by = "caller"
\* the evaluation took the parallel path
ParallelPath == ~(n < parallel_threshold \/ threads < 2)

\* C1: the index ranges handed to the chunk functors are well formed and pairwise
\* disjoint, and once the caller's chunk is handed out their union is exactly [0, n),
\* for every n >= 0 and every number of threads >= 1 (n < threads, batch = 0 included)
C1_ChunksPartition ==
    /\ \A k \in 1..Len(tasks) : 0 <= tasks[k].first /\ tasks[k].first <= tasks[k].last
    /\ \A j, k \in 1..Len(tasks) : j /= k => Range(j) \cap Range(k) = {}
    /\ AllHanded => UNION {Range(k) : k \in 1..Len(tasks)} = 0..(n - 1)
    /\ AllHanded /\ ParallelPath => Len(tasks) = threads

\* C1 witness: a parallel evaluation with fewer elements than threads has returned
C1_Witness ==
    /\ pc = "returned"
    /\ ParallelPath
    /\ 0 < n /\ n < threads
    /\ Len(tasks) = threads

\* C2: when a parallel evaluation returns, exactly threads - 1 chunks were handed to
\* the pool, the calling thread ran the last chunk itself, and every chunk is
\* finished: every access of every functor has happened
C2_BarrierBeforeReturn ==
    (pc = "returned" /\ ParallelPath) =>
        /\ Cardinality({k \in 1..Len(tasks) : tasks[k].by = "pool"}) = threads - 1
        /\ {k \in 1..Len(tasks) : tasks[k].by = "caller"} = {Len(tasks)}
        /\ tasks[Len(tasks)].first = (threads - 1) * batch
        /\ \A k \in 1..Len(tasks) :
              /\ tasks[k].st = "finished"
              /\ Exhausted(tasks[k])
              /\ tasks[k].tmp = <<>>

\* C2 witness: a parallel vectorized compound evaluation on three threads has returned
C2_Witness ==
    /\ pc = "returned"
    /\ threads = 3
    /\ vec
    /\ op = "add"
    /\ n >= 9

\* the destination indices functor k has written, and those it has read
Written(k) == Covered(Functor(tasks[k].first, tasks[k].last), tasks[k].pos)
ReadDest(k) ==
    IF op = "assign" THEN {}
    ELSE Covered(Functor(tasks[k].first, tasks[k].last),
                 IF tasks[k].tmp = <<>> THEN tasks[k].pos ELSE tasks[k].pos + 1)

\* C3: under every interleaving no destination index is written by two chunks, no
\* chunk reads a destination index another chunk writes, and once every chunk is
\* finished the destination is the one of a sequential evaluation
C3_RaceFree ==
    /\ \A j, k \in 1..Len(tasks) :
          j /= k => Written(j) \cap (Written(k) \cup ReadDest(k)) = {}
    /\ (AllHanded /\ \A k \in 1..Len(tasks) : tasks[k].st = "finished") =>
          \A i \in 0..(n - 1) : result[i] = Combine(op, result0(i), rhs(i))

\* C3 witness: two chunks of a compound evaluation are in flight at the same time,
\* one of them between its read and its write of the destination
C3_Witness ==
    \E j, k \in 1..Len(tasks) :
        /\ j /= k
        /\ op = "mul"
        /\ tasks[j].st = "running" /\ tasks[j].pos > 0 /\ tasks[j].tmp /= <<>>
        /\ tasks[k].st = "running" /\ tasks[k].pos > 0

(***************************************************************************)
(* Claims about the gpu_memory_handler (SpecGpu)                           *)
(***************************************************************************)
\* the residency fields of the handlers and the memories
gpuState == <<gpu_memory_, cpu_up_to_date, gpu_up_to_date, cpu_memory, device, live>>

\* the step is a call of name on handler h
Called(name, h) == last'.op = name /\ last'.h = h

\* C4: in every reachable state (invalidate_cpu is never called in state HostFresh)
\* every handler has cpu_up_to_date or gpu_up_to_date set
C4_NeitherUnreachable == \A h \in Handlers : ~Neither(h)

\* C5: ensure_gpu_up_to_date allocates if the handler holds no device memory; if
\* gpu_up_to_date is false it makes exactly one host to device copy and leaves
\* both flags set; if gpu_up_to_date is true it makes no copy and changes neither
\* flag
C5_EnsureDeviceUpToDate ==
    [][\A h \in Handlers : Called("ensure_gpu_up_to_date", h) =>
          /\ gpu_memory_[h] \notin live => (last'.allocs = 1 /\ gpu_memory_'[h] \in live')
          /\ ~gpu_up_to_date[h] =>
                (last'.h2d = 1 /\ cpu_up_to_date'[h] /\ gpu_up_to_date'[h])
          /\ gpu_up_to_date[h] =>
                (last'.h2d = 0 /\ cpu_up_to_date'[h] = cpu_up_to_date[h] /\ gpu_up_to_date'[h])
      ]_vars

\* C6: ensure_cpu_up_to_date makes a device to host copy exactly when cpu_up_to_date
\* is false and then leaves both flags set; when cpu_up_to_date is true it makes no
\* copy and changes neither flag nor the device allocation
C6_EnsureHostUpToDate ==
    [][\A h \in Handlers : Called("ensure_cpu_up_to_date", h) =>
          /\ ~cpu_up_to_date[h] =>
                (last'.d2h = 1 /\ cpu_up_to_date'[h] /\ gpu_up_to_date'[h])
          /\ cpu_up_to_date[h] =>
                /\ last'.d2h = 0
                /\ cpu_up_to_date'[h] /\ gpu_up_to_date'[h] = gpu_up_to_date[h]
                /\ gpu_memory_' = gpu_memory_ /\ live' = live
      ]_vars

\* C7: after ensure_gpu_up_to_date, a device-only mutation, invalidate_cpu and
\* ensure_cpu_up_to_date on a newly constructed container, the host buffer holds
\* the value the device operation wrote and both flags are set
C7_RoundTrip ==
    trip.step = 4 => (cpu_memory[trip.h] = trip.val /\ Both(trip.h))

\* C8: a call of ensure_cpu_up_to_date that directly follows a call of
\* ensure_cpu_up_to_date on the same handler makes no transfer (at most one
\* transfer in both calls together) and leaves the whole handler state unchanged
C8_EnsureHostIdempotent ==
    [][\A h \in Handlers :
          (last.op = "ensure_cpu_up_to_date" /\ last.h = h /\ Called("ensure_cpu_up_to_date", h)) =>
              /\ last'.d2h = 0
              /\ last.d2h + last'.d2h <= 1
              /\ UNCHANGED gpuState
      ]_vars

\* C8 witness: the round trip has ended with a transfer to the host and
\* ensure_cpu_up_to_date was called once more
C8_Witness ==
    /\ trip.step = 5
    /\ last.op = "ensure_cpu_up_to_date"
    /\ last.d2h = 0
    /\ gpu_memory_[trip.h] \in live

\* C9: after gpu_evict the handler holds no live device memory, cpu_up_to_date is
\* true and gpu_up_to_date is false
C9_EvictForcesHostFresh ==
    last.op = "gpu_evict" =>
        /\ gpu_memory_[last.h] \notin live
        /\ cpu_up_to_date[last.h]
        /\ ~gpu_up_to_date[last.h]

\* C10: after a.gpu_transfer_to(b), b holds the allocation a held, a holds none and
\* is host only (cpu_up_to_date, not gpu_up_to_date), b is device only
C10_TransferTo ==
    [][\A a, b \in Handlers :
          (a /= b /\ Called("gpu_transfer_to", a) /\ last'.to = b) =>
              /\ gpu_memory_'[b] = gpu_memory_[a]
              /\ gpu_memory_'[a] = 0
              /\ cpu_up_to_date'[a] /\ ~gpu_up_to_date'[a]
              /\ gpu_up_to_date'[b] /\ ~cpu_up_to_date'[b]
      ]_vars

\* the calls that may allocate
Ensures == {"ensure_gpu_allocated", "ensure_gpu_up_to_date"}

\* the step leaves the flags of the handlers other than h, the host buffers and
\* the pointers, allocations and contents of the device as they are
OnlyFlagsOf(h) ==
    /\ \A g \in Handlers \ {h} :
          cpu_up_to_date'[g] = cpu_up_to_date[g] /\ gpu_up_to_date'[g] = gpu_up_to_date[g]
    /\ UNCHANGED <<gpu_memory_, cpu_memory, device, live>>
    /\ last'.h2d = 0 /\ last'.d2h = 0 /\ last'.allocs = 0 /\ last'.frees = 0

C12_AllocatesAtMostOnce ==
    [][\A h \in Handlers :
          /\ (last'.op \in Ensures /\ last'.h = h) =>
                /\ last'.allocs = (IF gpu_memory_[h] = 0 THEN 1 ELSE 0)
                /\ gpu_memory_'[h] /= 0
          /\ (gpu_memory_[h] /= 0 /\ last'.op /= "gpu_transfer_to") =>
                gpu_memory_'[h] = gpu_memory_[h]
      ]_vars

\* C12 witness: a call that may allocate found the memory an earlier call
\* allocated, still live, and allocated nothing
C12_Witness ==
    /\ last.op \in Ensures
    /\ last.allocs = 0
    /\ ~last.fault
    /\ gpu_memory_[last.h] \in live
    /\ \A g \in Handlers \ {last.h} : gpu_memory_[g] = 0

\* C13: invalidate_cpu called in state Both or DeviceFresh leaves the handler
\* DeviceFresh and changes neither the device allocation nor any buffer
C13_InvalidateCpu ==
    [][\A h \in Handlers :
          (Called("invalidate_cpu", h) /\ (Both(h) \/ DeviceFresh(h))) =>
              /\ ~cpu_up_to_date'[h] /\ gpu_up_to_date'[h]
              /\ OnlyFlagsOf(h)
      ]_vars

\* C13 witness: invalidate_cpu was called on a handler holding live device memory
C13_Witness ==
    /\ last.op = "invalidate_cpu"
    /\ DeviceFresh(last.h)
    /\ gpu_memory_[last.h] \in live

\* C14: invalidate_gpu called in state Both or HostFresh leaves the handler
\* HostFresh and changes neither the device allocation nor any buffer
C14_InvalidateGpu ==
    [][\A h \in Handlers :
          (Called("invalidate_gpu", h) /\ (Both(h) \/ HostFresh(h))) =>
              /\ cpu_up_to_date'[h] /\ ~gpu_up_to_date'[h]
              /\ OnlyFlagsOf(h)
      ]_vars

\* C14 witness: invalidate_gpu was called on a handler holding live device memory
C14_Witness ==
    /\ last.op = "invalidate_gpu"
    /\ HostFresh(last.h)
    /\ gpu_memory_[last.h] \in live

(***************************************************************************)
(* Claims about the build without ETL_CUDA (SpecNoCuda)                    *)
(***************************************************************************)
\* C15: without ETL_CUDA every residency operation leaves the host buffers and
\* everything else as they are, and gpu_memory() returns nullptr after any
\* sequence of calls
C15_NoCudaNoOps ==
    [][/\ last'.op \in ResidencyOps => UNCHANGED <<gpuState, parVars, topVars, clsVars, dirVars, dynVars>>
       /\ last'.op = "gpu_memory" => (last'.ret = 0 /\ UNCHANGED <<gpuState, parVars, topVars>>)
      ]_vars

\* C15 witness: gpu_memory() was called on a container the program has stored
\* into, after residency operations
C15_Witness ==
    /\ last.op = "gpu_memory"
    /\ last.any
    /\ last.ret = 0
    /\ cpu_memory[last.h] = 2

(***************************************************************************)
(* Claims about the top level entry (SpecTop)                              *)
(***************************************************************************)
\* the contents of R before the evaluation
R0map == [i \in 0..(dim * dim - 1) |-> R0(i)]

\* the expression the evaluator operates on is not linear and views R
NonLinearAliasing == ~is_linear(fwd) /\ fwd.sub = "R"

\* C16: when the expression assigned is not linear and aliases R, every element
\* of it is read while R still holds its previous contents, and R ends up
\* holding the elements of the expression over the previous contents; for
\* assign(transpose(R), R), R ends up as the transpose of its previous contents
C16_AliasedAssign ==
    /\ (NonLinearAliasing /\ top_pc \in {"to_tmp", "to_result"}) => mem_R = R0map
    /\ (NonLinearAliasing /\ top_pc = "done") =>
          \A i \in 0..(dim * dim - 1) : mem_R[i] = read_flat(fwd, i, R0map)
    /\ (top_pc = "done" /\ expr = [sub |-> "R", tr |-> 1, order |-> order_R, opt |-> FALSE]) =>
          \A r, c \in 0..(dim - 1) : mem_R[r * dim + c] = R0(c * dim + r)

\* C16 witness: assign(transpose(R), R) of a 3 x 3 matrix is done and went
\* through the temporary
C16_Witness ==
    /\ top_pc = "done"
    /\ expr = [sub |-> "R", tr |-> 1, order |-> order_R, opt |-> FALSE]
    /\ dim = 3
    /\ tmp_result /= <<>>
    /\ mem_R /= R0map

\* the expression the rewriting rule is applied to: an optimizer wrapper is
\* first replaced by the optimized expression (assign only)
Requested ==
    IF top_op = "assign" /\ is_optimized_expr(expr) THEN optimized_forward(expr) ELSE expr

\* C17: for assign and for every compound operation, the evaluator operates on
\* the transpose of the expression exactly when the expression is not a
\* generator and its storage order differs from the one of R, and on the
\* expression unchanged otherwise
C17_StorageOrderRewrite ==
    top_pc \notin {"top", "idle"} =>
        fwd = IF ~is_generator(Requested) /\ Requested.order /= order_R
              THEN transpose(Requested)
              ELSE Requested

\* C17 witness: a compound operation whose expression has the other storage
\* order was forwarded as a transpose
C17_Witness ==
    /\ top_pc = "forwarded"
    /\ top_op = "mod"
    /\ expr.order /= order_R
    /\ fwd = transpose(expr)

(***************************************************************************)
(* Claims about the strategies of the evaluator (SpecEval)                 *)
(***************************************************************************)
\* every functor of the evaluation has been constructed and has returned
Done ==
    /\ AllHanded
    /\ \A k \in 1..Len(tasks) : tasks[k].st = "finished"
\* the number of accesses issued so far that combine element i
Combined(i) ==
    LET hits(k) == {j \in 1..tasks[k].pos :
                      LET a == Functor(tasks[k].first, tasks[k].last)[j]
                      IN  a.i <= i /\ i < a.i + a.w}
        RECURSIVE sum(_)
        sum(k) == IF k = 0 THEN 0 ELSE Cardinality(hits(k)) + sum(k - 1)
    IN  sum(Len(tasks))
\* a functor has read or written the destination
Touched == \E k \in 1..Len(tasks) : tasks[k].pos > 0 \/ tasks[k].tmp /= <<>>

\* C18: in every compound operation (add, sub, mul, div, mod), on every strategy and
\* on the fallbacks of the parallel ones, the sub expressions are evaluated exactly
\* once per call, and no element of the destination is combined before that
C18_EvaluatedOnceBeforeCombining ==
    op /= "assign" =>
        /\ evals <= 1
        /\ pc = "entry" => evals = 0 /\ tasks = <<>>
        /\ pc /= "entry" => evals = 1
        /\ Touched => evals = 1
        /\ evals = 0 => \A i \in DOMAIN result : result[i] = result0(i)

\* C18 witness: a compound division on the parallel vectorized overload, below the
\* threshold, has returned through its fallback
C18_Witness ==
    /\ strategy = "parallel_vectorized"
    /\ op = "div"
    /\ 0 < n /\ n < parallel_threshold
    /\ threads >= 2
    /\ pc = "returned"
    /\ evals = 1

\* C19: for every strategy, once a compound operation is done every element of the
\* destination is its previous value combined with the element of the expression,
\* and every element has been combined exactly once
C19_CompoundEquivalence ==
    op /= "assign" /\ Done =>
        \A i \in 0..(n - 1) :
            /\ result[i] = Combine(op, result0(i), rhs(i))
            /\ Combined(i) = 1

\* C19 witness: a vectorized subtraction with the unrolled main loop, a peel loop and
\* a remainder loop is done
C19_Witness ==
    /\ strategy = "vectorized"
    /\ op = "sub"
    /\ unroll_vectorized_loops
    /\ lhs_base = ElemSize
    /\ n > VecSize * 4 + 1
    /\ Done
    /\ pc = "returned"

\* C20: for every strategy, worker count, threshold, unroll toggle and alignment of
\* the destination, once an assignment is done the destination holds the elements
\* of the expression, so that all strategies yield the same contents
C20_StrategyIndependence ==
    op = "assign" /\ Done =>
        /\ DOMAIN result = 0..(n - 1)
        /\ \A i \in 0..(n - 1) : result[i] = rhs(i)

\* C20 witness: the fast overload has copied a destination of at least ten elements
C20_Witness ==
    /\ strategy = "fast"
    /\ op = "assign"
    /\ n >= 10
    /\ Done
    /\ pc = "returned"

(***************************************************************************)
(* Claims about the vectorized functors (SpecEval)                         *)
(***************************************************************************)
\* the accesses of functor k
FunctorOf(k) == Functor(tasks[k].first, tasks[k].last)
\* the accesses of functor k issued in phase ph
Phase(k, ph) == {j \in 1..Len(FunctorOf(k)) : FunctorOf(k)[j].ph = ph}
\* the functors of the evaluation are vectorized ones
VecTask == vec /\ op /= "mod"
\* the address of element i of the destination, modulo the alignment
Address(i) == (lhs_base + i * ElemSize) % Alignment

\* C21: for every chunk, destination address, unroll toggle and operator, the peel,
\* aligned or unaligned main and remainder phases of a vectorized functor process
\* every index of [first, last) exactly once and no index outside it
C21_PhasesPartition ==
    VecTask =>
        \A k \in 1..Len(tasks) :
            LET F == FunctorOf(k)
            IN  /\ \A j \in 1..Len(F) :
                       F[j].ph \in {"peel", "aligned", "unaligned", "remainder"}
                /\ \A i \in Range(k) :
                       Cardinality({j \in 1..Len(F) : F[j].i <= i /\ i < F[j].i + F[j].w}) = 1
                /\ Covered(F, Len(F)) \subseteq Range(k)
                /\ tasks[k].st = "finished" => tasks[k].pos = Len(F)

\* C21 witness: a vectorized multiplication over a chunk with a peel, a main and a
\* remainder phase has finished
C21_Witness ==
    /\ VecTask /\ op = "mul"
    /\ \E k \in 1..Len(tasks) :
          /\ tasks[k].st = "finished"
          /\ Phase(k, "peel") /= {}
          /\ Phase(k, "aligned") \cup Phase(k, "unaligned") /= {}
          /\ Phase(k, "remainder") /= {}

\* C22: every store of the aligned main phase targets an address that is 0 modulo the
\* alignment, for every chunk start, peel count and unroll setting
C22_AlignedStores ==
    VecTask =>
        \A k \in 1..Len(tasks) : \A j \in Phase(k, "aligned") :
            Address(FunctorOf(k)[j].i) = 0

\* C22 witness: a functor has finished an unrolled aligned main phase entered after
\* a peel phase
C22_Witness ==
    /\ VecTask /\ unroll_vectorized_loops
    /\ \E k \in 1..Len(tasks) :
          /\ tasks[k].st = "finished"
          /\ Phase(k, "peel") /= {}
          /\ Cardinality(Phase(k, "aligned")) >= 4

\* C23: the number of elements processed by the peel phase is in
\* [0, alignment / element size) and never exceeds the size of the chunk
C23_PeelLength ==
    VecTask =>
        \A k \in 1..Len(tasks) :
            /\ Cardinality(Phase(k, "peel")) = peel_loop(tasks[k].first, tasks[k].last)
            /\ 0 <= peel_loop(tasks[k].first, tasks[k].last)
            /\ peel_loop(tasks[k].first, tasks[k].last) < Alignment \div ElemSize
            /\ peel_loop(tasks[k].first, tasks[k].last) <= tasks[k].last - tasks[k].first

\* C23 witness: a functor whose chunk is shorter than the distance counted by the
\* peel loop has finished after peeling the whole chunk
C23_Witness ==
    /\ VecTask
    /\ \E k \in 1..Len(tasks) :
          /\ tasks[k].st = "finished"
          /\ tasks[k].last - tasks[k].first > 0
          /\ tasks[k].last - tasks[k].first < Address(tasks[k].first) \div ElemSize
          /\ Cardinality(Phase(k, "peel")) = tasks[k].last - tasks[k].first

\* C24: when the destination starts at a multiple of the element size and the chunk
\* is longer than the peel count, the element after the peeled ones is at an aligned
\* address, so the main phase is the aligned one and not the unaligned one
C24_PeelAligns ==
    VecTask /\ lhs_base % ElemSize = 0 =>
        \A k \in 1..Len(tasks) :
            LET peeled == peel_loop(tasks[k].first, tasks[k].last)
            IN  tasks[k].last - tasks[k].first > peeled =>
                    /\ Address(tasks[k].first + peeled) = 0
                    /\ Phase(k, "unaligned") = {}

\* C25: for every chunk and setting of the unroll toggle, the scalar remainder loop
\* handles fewer elements than a lane holds
C25_RemainderBelowLane ==
    VecTask =>
        \A k \in 1..Len(tasks) : Cardinality(Phase(k, "remainder")) < VecSize

\* C26: with a lane of 4 elements, an aligned destination of 5 elements and the
\* expression 1, 2, 3, 4, 5, the vectorized assignment peels nothing, stores the
\* elements 0..3 in the aligned main phase and element 4 in the remainder, and leaves
\* the destination equal to the expression, as the scalar copy does
C26_Scenario ==
    LET scenario == /\ strategy = "vectorized" /\ op = "assign" /\ expr_rhs = "iota"
                    /\ n = 5 /\ lhs_base = 0 /\ VecSize = 4
                    /\ tasks /= <<>>
    IN  scenario =>
            /\ Len(tasks) = 1
            /\ FunctorOf(1) = <<Acc(0, 4, "aligned"), Acc(4, 1, "remainder")>>
            /\ Done => /\ result = [i \in 0..4 |-> i + 1]
                       /\ \A i \in 0..4 : result[i] = rhs(i)

\* C26 witness: the vectorized assignment of the scenario is done
C26_Witness ==
    /\ strategy = "vectorized" /\ op = "assign" /\ expr_rhs = "iota"
    /\ n = 5 /\ lhs_base = 0
    /\ Done /\ pc = "returned"
    /\ result = [i \in 0..4 |-> i + 1]

(***************************************************************************)
(* Claims about the selection of the path and of the strategy (SpecEval)   *)
(***************************************************************************)
\* the evaluation went past the threshold test towards the pool
TookParallelPath ==
    \/ pc \in {"dispatch", "own", "wait"}
    \/ \E k \in 1..Len(tasks) : tasks[k].by = "pool"
\* the evaluation runs one functor over [0, n) on the calling thread, and no other
SingleThreaded ==
    /\ pc \in {"single", "returned"}
    /\ Len(tasks) = 1
    /\ tasks[1].by = "caller"
    /\ tasks[1].first = 0 /\ tasks[1].last = n
\* one of the parallel overloads has been entered
ParallelEntered == strategy \in {"parallel", "parallel_vectorized"} /\ pc /= "entry"

C28_ZeroSizeNoOp ==
    n = 0 =>
        /\ ~Touched
        /\ DOMAIN result = {}
        /\ pc \notin {"single", "own"}
        /\ \A k \in 1..Len(tasks) :
              /\ FunctorOf(k) = <<>>
              /\ tasks[k].st \in {"queued", "finished"}
        /\ pc /= "entry" /\ ~TookParallelPath => pc = "returned"

\* C28 witness: a vectorized addition into a misaligned destination of size 0 has
\* returned
C28_Witness ==
    /\ n = 0
    /\ strategy = "vectorized" /\ op = "add" /\ lhs_base = ElemSize
    /\ pc = "returned"
    /\ evals = 1
    /\ Len(tasks) = 1

\* C29: mod_evaluate is always scalar: whatever strategy the traits select for the
\* other operators, it runs one loop on the calling thread that applies
\* result[i] %= expr[i] once for each i of [0, n) in ascending order, with no lane
\* access and no task for the pool
C29_ModAlwaysScalar ==
    op = "mod" /\ pc /= "entry" =>
        /\ ~TookParallelPath
        /\ Len(tasks) = 1
        /\ tasks[1].by = "caller"
        /\ tasks[1].first = 0 /\ tasks[1].last = n
        /\ FunctorOf(1) = [j \in 1..n |-> Acc(j - 1, 1, "standard")]
        /\ \A i \in 0..(n - 1) :
              result[i] = IF i < tasks[1].pos
                          THEN Combine("mod", result0(i), rhs(i))
                          ELSE result0(i)
        /\ pc = "returned" <=> tasks[1].pos = n

\* C29 witness: a modulo evaluation whose traits select the parallel vectorized
\* strategy, with 2 threads or more and a size above the threshold, has returned
C29_Witness ==
    /\ op = "mod"
    /\ strategy = "parallel_vectorized"
    /\ threads >= 2
    /\ n > parallel_threshold /\ n >= VecSize + 1
    /\ pc = "returned"
    /\ tasks[1].pos = n

C40_LanesInsideChunk ==
    VecTask =>
        \A k \in 1..Len(tasks) :
            LET F == FunctorOf(k)
            IN  \A j \in 1..Len(F) :
                    F[j].ph \in {"aligned", "unaligned"} =>
                        /\ F[j].w = VecSize
                        /\ tasks[k].first <= F[j].i
                        /\ F[j].i + F[j].w <= tasks[k].last

\* C40 witness: the first chunk of a parallel evaluation, which has a neighbour
\* after it, has finished a main phase followed by a remainder
C40_Witness ==
    /\ VecTask
    /\ Len(tasks) >= 2
    /\ tasks[1].st = "finished"
    /\ tasks[1].last < n
    /\ Phase(1, "aligned") \cup Phase(1, "unaligned") /= {}
    /\ Phase(1, "remainder") /= {}

(***************************************************************************)
(* Termination of the parallel evaluation (SpecFair)                       *)
(***************************************************************************)
\* C35: with the calling thread running and every worker of the pool scheduled
\* fairly, a parallel evaluation that goes to the pool hands out all its chunks,
\* every chunk completes, and the calling thread passes the barrier and returns,
\* for every element count and every number of threads >= 2
C35_ParallelTerminates ==
    (pc = "dispatch") ~>
        (/\ pc = "returned"
         /\ Len(tasks) = threads
         /\ \A k \in 1..Len(tasks) : tasks[k].st = "finished")

\* C35 witness: an evaluation with more pool tasks than one has returned from the
\* parallel path
C35_Witness ==
    /\ pc = "returned"
    /\ threads >= 3
    /\ Len(tasks) = threads
    /\ \A k \in 1..Len(tasks) : tasks[k].st = "finished"
    /\ \E k \in 1..Len(tasks) : tasks[k].by = "pool" /\ tasks[k].last > tasks[k].first

(***************************************************************************)
(* Lifetime of the device allocations (SpecGpu)                            *)
(***************************************************************************)
\* the handlers whose gpu_memory_ is the address x
Holders(x) == {g \in Handlers : gpu_memory_[g] = x}

\* every live allocation is held by exactly one handler
Conserved == \A x \in live : Cardinality(Holders(x)) = 1

\* C32: a newly constructed handler is HostFresh and gpu_memory() returns nullptr;
\* only ensure_gpu_allocated and ensure_gpu_up_to_date allocate device memory
C32_LazyAllocation ==
    /\ last = NoLast => \A h \in Handlers : HostFresh(h) /\ gpu_memory_[h] = 0
    /\ last.op \notin Ensures => last.allocs = 0

\* C36: ensure_gpu_up_to_date called directly after the ensure_gpu_allocated that
\* allocated the device memory of a handler whose host copy is up to date leaves
\* the device memory equal to the host buffer
C36_DeviceHoldsHostValues ==
    [][\A h \in Handlers :
          (/\ last.op = "ensure_gpu_allocated" /\ last.h = h /\ last.allocs = 1
           /\ cpu_up_to_date[h]
           /\ Called("ensure_gpu_up_to_date", h)) =>
              /\ gpu_memory_'[h] \in live'
              /\ device'[gpu_memory_'[h]] = cpu_memory'[h]
      ]_vars

\* C37: gpu_evict on a handler holding live device memory frees it once and
\* leaves gpu_memory() null, so that no later call sees the freed memory
C37_EvictDropsPointer ==
    [][\A h \in Handlers :
          (Called("gpu_evict", h) /\ gpu_memory_[h] \in live) =>
              /\ last'.frees = 1
              /\ gpu_memory_[h] \notin live'
              /\ gpu_memory_'[h] = 0
      ]_vars

\* C38: a.gpu_transfer_to(b) called when every live allocation is held by exactly
\* one handler keeps every allocation live and held by exactly one handler
C38_TransferConserves ==
    [][\A a, b \in Handlers :
          (Called("gpu_transfer_to", a) /\ last'.to = b /\ Conserved) =>
              /\ live' = live
              /\ \A x \in live : Cardinality({g \in Handlers : gpu_memory_'[g] = x}) = 1
      ]_vars

\* C39: a host to device copy is made only with gpu_memory_ non-null,
\* gpu_up_to_date false and cpu_up_to_date true; a device to host copy only with
\* gpu_memory_ non-null, gpu_up_to_date true and cpu_up_to_date false
C39_CopyAssertionsHold ==
    [][\A h \in Handlers :
          /\ (Called("ensure_gpu_up_to_date", h) /\ last'.h2d = 1) =>
                (gpu_memory_'[h] /= 0 /\ ~gpu_up_to_date[h] /\ cpu_up_to_date[h])
          /\ (Called("ensure_cpu_up_to_date", h) /\ last'.d2h = 1) =>
                (gpu_memory_[h] /= 0 /\ gpu_up_to_date[h] /\ ~cpu_up_to_date[h])
      ]_vars

(***************************************************************************)
(* Linear expressions that overlap the destination (SpecTop)               *)
(***************************************************************************)
\* the expression the evaluator operates on is linear and reads the memory of R
\* one element further down or further up
ShiftedLinear == is_linear(fwd) /\ fwd.sub \in {"Rlo", "Rhi"}

\* C33: once the assignment of a linear expression that reads R at a shifted offset
\* is done, R holds the elements of the expression over the previous contents of R,
\* as it would after going through a temporary
C33_ShiftedOverlap ==
    (top_pc = "done" /\ ShiftedLinear) =>
        \A i \in 0..(dim * dim - 1) : mem_R[i] = read_flat(fwd, i, R0map)

(***************************************************************************)
(* Direct evaluation of a temporary expression (SpecDirect)                *)
(***************************************************************************)
\* the nodes of the operands of the expression
AllOperandNodes == OperandNodes(d_expr, "a") \cup OperandNodes(d_expr, "b")

\* assign_evaluate has made all its calls
DirectDone == d_step = Len(Calls(d_expr.kind))

\* C34: when the expression assigned is a temporary unary or binary expression, the
\* two visitors are applied to its operands only, each node of an operand being
\* visited once by each of them and the allocator coming first; the expression
\* itself gets no temporary and is evaluated once, by direct_evaluate(result), after
\* its operands
C34_DirectEvaluation ==
    /\ d_alloc[TopNode] = 0 /\ d_eval[TopNode] = 0
    /\ TopNode \notin d_temps
    /\ \A nd \in Nodes :
          /\ d_alloc[nd] <= 1 /\ d_eval[nd] <= d_alloc[nd]
          /\ nd \notin AllOperandNodes => d_alloc[nd] = 0
          /\ nd \in d_temps => is_temporary_expr(d_expr, nd)
    /\ d_direct <= 1
    /\ d_direct = 1 => \A nd \in AllOperandNodes : d_eval[nd] = 1
    /\ DirectDone =>
          /\ d_direct = 1
          /\ d_temps = {nd \in AllOperandNodes : is_temporary_expr(d_expr, nd)}

\* C34 witness: a binary temporary expression whose two operands hold nodes that
\* produce temporaries has been evaluated directly into the result
C34_Witness ==
    /\ DirectDone
    /\ d_expr.kind = "binary"
    /\ d_direct = 1
    /\ \E nd \in OperandNodes(d_expr, "a") : nd \in d_temps
    /\ \E nd \in OperandNodes(d_expr, "b") : nd \in d_temps /\ nd[2] = MaxDepth
    /\ \E nd \in AllOperandNodes : ~is_temporary_expr(d_expr, nd) /\ d_eval[nd] = 1

(***************************************************************************)
(* Size and dimensions of the containers (SpecDyn)                         *)
(***************************************************************************)
\* the invariant check_invariants asserts
Coherent(o) == accumulate(o.dimensions, 1) = o.size

====
